---- MODULE Spec2Model ----
(***************************************************************************)
(* FlowShield: validation and repair of tabular records against a schema   *)
(* and a constraint profile (src/flowshield).                              *)
(*                                                                         *)
(* Numbers.  A Python float is modelled as a record [k, v]:                *)
(*   k = "num"  a finite number, v counts units of 1/Scale                 *)
(*   k = "nan"  NaN            k = "inf" / "-inf"  the infinities          *)
(*   k = "none" Python None (an absent Optional)                           *)
(* All data of the model lies on the grid of multiples of 1/Scale and the  *)
(* inputs are whole numbers, so that every halving the code performs on    *)
(* them is exact.  Comparisons follow IEEE 754: any comparison with NaN is *)
(* false, and != with NaN is true.                                         *)
(***************************************************************************)
EXTENDS Integers, Sequences, FiniteSets, TLC

\* ------------------------------------------------------------------ bounds
\* number of successive exact halvings the grid supports
HalfSteps == 2
\* data values are the whole numbers -MaxVal .. MaxVal (and NaN)
MaxVal == 2
\* the datasets of several rows have at most MaxRows rows
MaxRows == 2

Scale == 2 ^ HalfSteps

\* ------------------------------------------------------------------ floats
Num(n) == [k |-> "num", v |-> n]
NaN == [k |-> "nan", v |-> 0]
PosInf == [k |-> "inf", v |-> 0]
NegInf == [k |-> "-inf", v |-> 0]
None == [k |-> "none", v |-> 0]
\* a whole number w as a grid value
Whole(w) == Num(w * Scale)

IsNaN(x) == x.k = "nan"
IsFinite(x) == x.k = "num"

\* a bool compares as the number it is: True as 1.0, False as 0.0
Number(x) == IF x.k = "bool" THEN Num(x.v * Scale) ELSE x

\* x < y on floats
Lt(x, y) ==
    IF x.k = "nan" \/ y.k = "nan" THEN FALSE
    ELSE IF x.k = "inf" \/ y.k = "-inf" THEN FALSE
    ELSE IF x.k = "-inf" \/ y.k = "inf" THEN TRUE
    ELSE Number(x).v < Number(y).v
Gt(x, y) == Lt(y, x)
\* x == y (NaN equals nothing; True == 1.0 and False == 0.0)
Eq(x, y) ==
    /\ x.k # "nan" /\ y.k # "nan"
    /\ Number(x).k = Number(y).k /\ Number(x).v = Number(y).v
Ne(x, y) == ~Eq(x, y)
Ge(x, y) == Gt(x, y) \/ Eq(x, y)
Le(x, y) == Lt(x, y) \/ Eq(x, y)

\* Python's builtin max(a, b) / min(a, b): the first argument is kept
\* unless the second compares strictly greater / smaller
PyMax(a, b) == IF Gt(b, a) THEN b ELSE a
PyMin(a, b) == IF Lt(b, a) THEN b ELSE a

\* x + y and x - y on floats
Add(x, y) ==
    IF x.k = "nan" \/ y.k = "nan" THEN NaN
    ELSE IF x.k = "num" /\ y.k = "num" THEN Num(x.v + y.v)
    ELSE IF x.k = "num" THEN y
    ELSE IF y.k = "num" THEN x
    ELSE IF x.k = y.k THEN x
    ELSE NaN
Neg(x) ==
    IF x.k = "num" THEN Num(-x.v)
    ELSE IF x.k = "inf" THEN NegInf
    ELSE IF x.k = "-inf" THEN PosInf
    ELSE x
Sub(x, y) == Add(x, Neg(y))
\* x / 2 (exact on the grid: see HalfSteps)
Half(x) == IF x.k = "num" THEN Num(x.v \div 2) ELSE x

Abs(n) == IF n < 0 THEN -n ELSE n

\* ------------------------------------------------------------------ cells
\* A cell of a dataset holds a number (num / nan), a boolean, None, a string
\* that float() rejects (k = "str") or a string that float() reads as a
\* number (k = "numstr").
\* a string that is not the text of a number, such as "abc"
Str == [k |-> "str", v |-> 0]
\* the n-th string of a small vocabulary of category names (n >= 1), none of
\* them the text of a number
Text(n) == [k |-> "str", v |-> n]
\* the string that float() reads as the grid value n, such as "5"
NumText(n) == [k |-> "numstr", v |-> n]
\* isinstance(value, str)
IsStr(value) == value.k \in {"str", "numstr"}
\* the booleans True and False
Bool(b) == [k |-> "bool", v |-> IF b THEN 1 ELSE 0]

\* rules._safe_float: missing and non-numeric values become NaN
SafeFloat(value) ==
    IF value.k \in {"none", "nan", "str"} THEN NaN
    ELSE IF value.k = "bool" THEN Whole(value.v)
    ELSE IF value.k = "numstr" THEN Num(value.v)
    ELSE value

\* repair._coerce_numeric
CoerceNumeric(value) ==
    IF value.k \in {"none", "nan", "str"} THEN NaN
    ELSE IF value.k = "bool" THEN Whole(value.v)
    ELSE IF value.k = "numstr" THEN Num(value.v)
    ELSE value

\* x doubled (used to compare on the half-unit grid)
Twice(x) == IF x.k = "num" THEN Num(2 * x.v) ELSE x

\* the tolerances 1e-9 (rules.py) and 1e-6 (validate.py) are positive and
\* smaller than one grid unit; on grid values a comparison against
\* "x - tolerance" is decided exactly by taking the tolerance as half a unit
\* (one unit of the doubled grid)
Tol == 1
IntegerTol == 1

\* a Python int (a row count)
IntVal(n) == [k |-> "int", v |-> n]

\* val < prev - 1e-9
LtMinusTol(val, prev) == Lt(Twice(val), Sub(Twice(prev), Num(Tol)))

\* ------------------------------------------------------------------ schema
\* schema.FeatureColumn (the fields validation and repair read)
Col(name, dtype, minimum, maximum, integer_only, non_negative, nullable) ==
    [name |-> name, dtype |-> dtype, minimum |-> minimum, maximum |-> maximum,
     integer_only |-> integer_only, non_negative |-> non_negative,
     nullable |-> nullable]

\* a categorical column; categories is the list of declared categories, empty
\* when none is declared (None and [] are both false at validate.py:131 and
\* repair.py:177)
CategoricalCol(name, categories, nullable) ==
    [name |-> name, dtype |-> "categorical", minimum |-> None, maximum |-> None,
     integer_only |-> FALSE, non_negative |-> FALSE, nullable |-> nullable,
     categories |-> categories]

\* FeatureSchema.from_columns(names, defaults={"dtype": "float", ...})
FloatCol(name, minimum, maximum, non_negative) ==
    Col(name, "float", minimum, maximum, FALSE, non_negative, FALSE)

\* ------------------------------------------------------------------ profile
\* profile.RelationRule
OrderRule(name, left, right, operator, message, severity, strategy) ==
    [name |-> name, type |-> "ORDER",
     params |-> [left |-> left, right |-> right, operator |-> operator],
     message |-> message, severity |-> severity, repair_strategy |-> strategy]

GroupRule(name, columns, message, severity, strategy) ==
    [name |-> name, type |-> "NONDECREASING_GROUP",
     params |-> [columns |-> columns],
     message |-> message, severity |-> severity, repair_strategy |-> strategy]

\* a SUM_BOUNDS rule; bounds is a dict with the keys "min" and "max" that the
\* rule gives
SumRule(name, columns, bounds, message, severity, strategy) ==
    [name |-> name, type |-> "SUM_BOUNDS",
     params |-> [key \in {"columns"} \cup DOMAIN bounds |->
                    IF key = "columns" THEN columns ELSE bounds[key]],
     message |-> message, severity |-> severity, repair_strategy |-> strategy]

\* a RATIO_BOUNDS rule; extra is a dict with the keys "eps", "min" and "max"
\* that the rule gives
RatioRule(name, numerator, denominator, extra, message, severity, strategy) ==
    [name |-> name, type |-> "RATIO_BOUNDS",
     params |-> [key \in {"numerator", "denominator"} \cup DOMAIN extra |->
                    IF key = "numerator" THEN numerator
                    ELSE IF key = "denominator" THEN denominator
                    ELSE extra[key]],
     message |-> message, severity |-> severity, repair_strategy |-> strategy]

\* the constraint of an IF_THEN rule: the string "non_negative", or a dict
\* with the key "min" or "max"
StrConstraint(text) == [str |-> text]
DictConstraint(dict) == [dict |-> dict]

\* an IF_THEN rule
IfThenRule(name, if_feature, op, value, then_feature, constraint, message, severity, strategy) ==
    [name |-> name, type |-> "IF_THEN",
     params |-> [if_feature |-> if_feature, op |-> op, value |-> value,
                 then_feature |-> then_feature, constraint |-> constraint],
     message |-> message, severity |-> severity, repair_strategy |-> strategy]

\* profile.ConstraintProfile
Profile(name, clip, impute, nan_policy, rounding, rules, severity_map, mode) ==
    [name |-> name,
     numeric_policy |-> [clip |-> clip, impute |-> impute, nan_policy |-> nan_policy],
     int_policy |-> [rounding |-> rounding],
     relation_rules |-> rules,
     severity_map |-> severity_map,
     repair_mode |-> mode]

\* dict.get(key, default) on a function used as a dict
Get(d, key, default) == IF key \in DOMAIN d THEN d[key] ELSE default

NoColumn == "<None>"
EmptyDict == [x \in {} |-> 0]

\* json.dumps of a float: the shortest text that reads back as the same float,
\* and the tokens NaN, Infinity and -Infinity
JsonFloat(x) ==
    IF x.k = "num" THEN << "number", x.v >>
    ELSE IF x.k = "nan" THEN << "NaN", 0 >>
    ELSE IF x.k = "inf" THEN << "Infinity", 0 >>
    ELSE << "-Infinity", 0 >>
\* json.loads of such a token
JsonParseFloat(token) ==
    IF token[1] = "number" THEN Num(token[2])
    ELSE IF token[1] = "NaN" THEN NaN
    ELSE IF token[1] = "Infinity" THEN PosInf
    ELSE NegInf
\* json.dumps and json.loads of a dict of dicts of floats
JsonDumps(state) ==
    [key \in DOMAIN state |-> [name \in DOMAIN state[key] |-> JsonFloat(state[key][name])]]
JsonLoads(content) ==
    [key \in DOMAIN content |->
        [name \in DOMAIN content[key] |-> JsonParseFloat(content[key][name])]]
\* no file has been written
NoFile == [exists |-> FALSE]

\* ------------------------------------------------------------------ rules.py
\* rules.ConstraintViolation
Violation(row_index, column, rule_name, violation_type, severity, observed, expected, message) ==
    [row_index |-> row_index, column |-> column, rule_name |-> rule_name,
     violation_type |-> violation_type, severity |-> severity,
     observed_value |-> observed, expected |-> expected, message |-> message]

\* rules.RepairAction
RepairAction(row_index, column, old_value, new_value, reason, rule_name, strategy, delta) ==
    [row_index |-> row_index, column |-> column, old_value |-> old_value,
     new_value |-> new_value, reason |-> reason, rule_name |-> rule_name,
     strategy |-> strategy, delta |-> delta]

\* evaluate_relation, first loop: the numeric values of the string-valued
\* parameters that name a column of the row
RelationValues(row, rule) ==
    LET named == IF rule.type = "ORDER"
                 THEN {rule.params[key] : key \in DOMAIN rule.params}
                 ELSE IF rule.type = "RATIO_BOUNDS"
                 THEN {rule.params.numerator, rule.params.denominator}
                 ELSE IF rule.type = "IF_THEN"
                 THEN {rule.params.if_feature, rule.params.then_feature, rule.params.op}
                      \cup (IF "str" \in DOMAIN rule.params.constraint
                            THEN {rule.params.constraint.str} ELSE {})
                 ELSE {}
    IN [c \in named \cap DOMAIN row |-> SafeFloat(row[c])]

\* row.name of a Series that was built without a name (None); the rows that
\* DataFrame.iterrows hands out are named by their index
NoName == -1

\* the outcome of an evaluation that found the rule violated: the violation
\* object is built with row_index=int(row.name), and int(None) raises TypeError
Violated(idx0, violation) ==
    IF idx0 = NoName THEN [raised |-> TRUE, ok |-> FALSE, violation |-> None]
    ELSE [raised |-> FALSE, ok |-> FALSE, violation |-> violation]

\* an order evaluation that compares strictly: equal values are reported
EvaluateOrderStrict(row, idx0, rule) ==
    LET left == rule.params.left
        right == rule.params.right
        operator == Get(rule.params, "operator", ">=")
    IN IF left \notin DOMAIN row \/ right \notin DOMAIN row
       THEN [raised |-> TRUE, ok |-> FALSE, violation |-> None]
       ELSE LET lv == SafeFloat(row[left])
                rv == SafeFloat(row[right])
                ok == ~((operator = ">=" /\ ~Gt(lv, rv))
                        \/ (operator = "<=" /\ ~Lt(lv, rv)))
            IN IF ok THEN [raised |-> FALSE, ok |-> TRUE, violation |-> None]
               ELSE Violated(idx0, Violation(idx0, NoColumn, rule.name, "order",
                                             rule.severity,
                                             (right :> rv) @@ (left :> lv),
                                             <<left, operator, right>>, rule.message))

\* evaluate_relation, ORDER branch.  row[left] and row[right] raise KeyError
\* when the row has no such column.
EvaluateOrder(row, idx0, rule) ==
    LET left == rule.params.left
        right == rule.params.right
        operator == Get(rule.params, "operator", ">=")
    IN IF left \notin DOMAIN row \/ right \notin DOMAIN row
       THEN [raised |-> TRUE, ok |-> FALSE, violation |-> None]
       ELSE LET lv == SafeFloat(row[left])
                rv == SafeFloat(row[right])
                ok == ~((operator = ">=" /\ ~Ge(lv, rv))
                        \/ (operator = "<=" /\ ~Le(lv, rv)))
            IN IF ok THEN [raised |-> FALSE, ok |-> TRUE, violation |-> None]
               ELSE Violated(idx0, Violation(idx0, NoColumn, rule.name, "order",
                                             rule.severity,
                                             (right :> rv) @@ (left :> lv),
                                             <<left, operator, right>>, rule.message))

\* evaluate_relation, NONDECREASING_GROUP loop from position i with the
\* previous value prev: the position of the first offending column, 0 when
\* the scan ends without one, -1 when a column of the list is not in the row
\* (KeyError) before an offender is met
RECURSIVE GroupScan(_, _, _, _)
GroupScan(row, columns, i, prev) ==
    IF i > Len(columns) THEN 0
    ELSE IF columns[i] \notin DOMAIN row THEN -1
    ELSE LET val == SafeFloat(row[columns[i]])
         IN IF LtMinusTol(val, prev) THEN i
            ELSE GroupScan(row, columns, i + 1, val)

\* evaluate_relation, NONDECREASING_GROUP branch
EvaluateGroup(row, idx0, rule) ==
    LET columns == Get(rule.params, "columns", <<>>)
        at == GroupScan(row, columns, 1, NegInf)
    IN IF at = -1 THEN [raised |-> TRUE, ok |-> FALSE, violation |-> None]
       ELSE IF at = 0 THEN [raised |-> FALSE, ok |-> TRUE, violation |-> None]
       ELSE Violated(idx0, Violation(idx0, columns[at], rule.name, "nondecreasing",
                                     rule.severity, row[columns[at]], columns,
                                     rule.message))

\* numpy.nansum of the numbers of the listed columns from position i: NaN
\* counts as 0
RECURSIVE NanSum(_, _, _)
NanSum(row, columns, i) ==
    IF i > Len(columns) THEN Num(0)
    ELSE LET val == SafeFloat(row[columns[i]])
         IN Add(IF IsNaN(val) THEN Num(0) ELSE val, NanSum(row, columns, i + 1))

\* evaluate_relation, SUM_BOUNDS branch (lines 63-79)
EvaluateSum(row, idx0, rule) ==
    LET columns == Get(rule.params, "columns", << >>)
    IN IF \E i \in DOMAIN columns : columns[i] \notin DOMAIN row
       THEN [raised |-> TRUE, ok |-> FALSE, violation |-> None]
       ELSE LET total == NanSum(row, columns, 1)
                minimum == Get(rule.params, "min", NegInf)
                maximum == Get(rule.params, "max", PosInf)
                ok == ~(Lt(total, minimum) \/ Gt(total, maximum))
            IN IF ok THEN [raised |-> FALSE, ok |-> TRUE, violation |-> None]
               ELSE Violated(idx0, Violation(idx0, NoColumn, rule.name, "sum_bounds",
                                             rule.severity, total,
                                             <<minimum, columns, maximum>>, rule.message))

\* x * y on floats, for numbers of which one is whole (exact on the grid)
Mul(x, y) ==
    IF x.k = "nan" \/ y.k = "nan" THEN NaN
    ELSE IF x.k = "num" /\ y.k = "num" THEN Num((x.v * y.v) \div Scale)
    ELSE IF (x.k = "num" /\ x.v = 0) \/ (y.k = "num" /\ y.v = 0) THEN NaN
    ELSE IF Lt(x, Num(0)) = Lt(y, Num(0)) THEN PosInf ELSE NegInf

\* numerator / divisor when one of the two is infinite: infinity over infinity
\* is NaN, infinity over a number keeps or flips its sign with the number's
\* sign, a number over infinity is zero
InfiniteQuotient(numerator, divisor) ==
    IF ~IsFinite(numerator) /\ ~IsFinite(divisor) THEN NaN
    ELSE IF IsFinite(numerator) THEN Num(0)
    ELSE IF (numerator.k = "inf") = (divisor.v > 0) THEN PosInf ELSE NegInf

\* numerator / divisor < bound and numerator / divisor > bound for a divisor
\* other than zero, decided without rounding the quotient
QuotientLt(numerator, divisor, bound) ==
    IF IsNaN(numerator) \/ IsNaN(divisor) \/ IsNaN(bound) THEN FALSE
    ELSE IF ~IsFinite(numerator) \/ ~IsFinite(divisor)
    THEN Lt(InfiniteQuotient(numerator, divisor), bound)
    ELSE IF bound.k = "inf" THEN TRUE
    ELSE IF bound.k = "-inf" THEN FALSE
    ELSE IF divisor.v > 0 THEN numerator.v * Scale < bound.v * divisor.v
    ELSE numerator.v * Scale > bound.v * divisor.v
QuotientGt(numerator, divisor, bound) ==
    IF IsNaN(numerator) \/ IsNaN(divisor) \/ IsNaN(bound) THEN FALSE
    ELSE IF ~IsFinite(numerator) \/ ~IsFinite(divisor)
    THEN Gt(InfiniteQuotient(numerator, divisor), bound)
    ELSE IF bound.k = "inf" THEN FALSE
    ELSE IF bound.k = "-inf" THEN TRUE
    ELSE IF divisor.v > 0 THEN numerator.v * Scale > bound.v * divisor.v
    ELSE numerator.v * Scale < bound.v * divisor.v

\* evaluate_relation, RATIO_BOUNDS branch (lines 101-120).  The rules of the
\* model give eps as a grid value.  The division of two Python floats raises
\* ZeroDivisionError when denominator + eps is zero.  The ratio is kept as the
\* pair << numerator, denominator + eps >>.
EvaluateRatio(row, idx0, rule) ==
    LET num == rule.params.numerator
        den == rule.params.denominator
        eps == rule.params.eps
    IN IF num \notin DOMAIN row \/ den \notin DOMAIN row
       THEN [raised |-> TRUE, ok |-> FALSE, violation |-> None]
       ELSE LET rv == SafeFloat(row[den])
                divisor == Add(rv, eps)
                minimum == Get(rule.params, "min", NegInf)
                maximum == Get(rule.params, "max", PosInf)
            IN IF divisor = Num(0)
               THEN [raised |-> TRUE, ok |-> FALSE, violation |-> None]
               ELSE LET ok == ~(QuotientLt(SafeFloat(row[num]), divisor, minimum)
                               \/ QuotientGt(SafeFloat(row[num]), divisor, maximum))
                    IN IF ok THEN [raised |-> FALSE, ok |-> TRUE, violation |-> None]
                       ELSE Violated(idx0, Violation(idx0, NoColumn, rule.name,
                                                     "ratio_bounds", rule.severity,
                                                     << SafeFloat(row[num]), divisor >>,
                                                     <<minimum, num, den, maximum>>,
                                                     rule.message))

\* evaluate_relation, IF_THEN branch (lines 121-155)
EvaluateIfThen(row, idx0, rule) ==
    LET feature == rule.params.if_feature
        op == Get(rule.params, "op", ">=")
        value == Get(rule.params, "value", Num(0))
        then_feature == rule.params.then_feature
        constraint == Get(rule.params, "constraint", StrConstraint("non_negative"))
        same == [raised |-> FALSE, ok |-> TRUE, violation |-> None]
    IN IF feature \notin DOMAIN row
       THEN [raised |-> TRUE, ok |-> FALSE, violation |-> None]
       ELSE LET fv == SafeFloat(row[feature])
                condition == (op = ">=" /\ Ge(fv, value)) \/ (op = "<=" /\ Le(fv, value))
            IN IF ~condition THEN same
               ELSE IF then_feature \notin DOMAIN row
               THEN [raised |-> TRUE, ok |-> FALSE, violation |-> None]
               ELSE LET target == SafeFloat(row[then_feature])
                        is_dict == "dict" \in DOMAIN constraint
                        expected ==
                            IF constraint = StrConstraint("non_negative")
                            THEN IF Lt(target, Num(0))
                                 THEN <<then_feature, ">=", Num(0), "when", feature, op, value>>
                                 ELSE << >>
                            ELSE IF is_dict /\ "min" \in DOMAIN constraint.dict
                            THEN IF Lt(target, constraint.dict["min"])
                                 THEN <<then_feature, ">=", constraint.dict["min"],
                                        "when condition met">>
                                 ELSE << >>
                            ELSE IF is_dict /\ "max" \in DOMAIN constraint.dict
                            THEN IF Gt(target, constraint.dict["max"])
                                 THEN <<then_feature, "<=", constraint.dict["max"],
                                        "when condition met">>
                                 ELSE << >>
                            ELSE << >>
                    IN IF expected = << >> THEN same
                       ELSE Violated(idx0, Violation(idx0, then_feature, rule.name,
                                                     "if_then", rule.severity,
                                                     row[then_feature], expected,
                                                     rule.message))

\* rules.evaluate_relation(row, rule) -> (ok, violation, values); raised is
\* TRUE when the call ends in an exception (KeyError, ZeroDivisionError,
\* TypeError) instead of returning
EvaluateRelation(row, idx0, rule) ==
    LET r == IF rule.type = "ORDER" THEN EvaluateOrder(row, idx0, rule)
             ELSE IF rule.type = "SUM_BOUNDS" THEN EvaluateSum(row, idx0, rule)
             ELSE IF rule.type = "RATIO_BOUNDS" THEN EvaluateRatio(row, idx0, rule)
             ELSE IF rule.type = "IF_THEN" THEN EvaluateIfThen(row, idx0, rule)
             ELSE EvaluateGroup(row, idx0, rule)
    IN r @@ [values |-> RelationValues(row, rule)]

\* ------------------------------------------------------------------ validate.py
\* validate._infer_severity
InferSeverity(profile, violation_type) ==
    Get(profile.severity_map, violation_type, "warn")

\* round(numeric) of Python 3 on a grid value n: nearest whole number, ties
\* to the even one (numpy.round agrees)
FloorUnits(n) == (n \div Scale) * Scale
RoundUnits(n) ==
    LET f == FloorUnits(n)
        r == n - f
    IN IF 2 * r < Scale THEN f
       ELSE IF 2 * r > Scale THEN f + Scale
       ELSE IF (f \div Scale) % 2 = 0 THEN f ELSE f + Scale

\* value in {True, False, 0, 1}: membership by hash and ==, so 1.0 is in
InBoolSet(value) ==
    value.k = "bool" \/ (value.k = "num" /\ value.v \in {0, Scale})
\* bool(value): a number is true unless zero (NaN is true), None is false,
\* a non-empty string is true
PyBool(value) ==
    IF value.k = "bool" THEN value
    ELSE IF value.k = "num" THEN Bool(value.v # 0)
    ELSE IF value.k = "none" THEN Bool(FALSE)
    ELSE Bool(TRUE)

\* value in col_spec.categories
InCategories(value, categories) == \E i \in DOMAIN categories : categories[i] = value

\* validate._validate_value, the categorical branch (lines 130-156)
ValidateCategory(row_index, col_name, value, col_spec, profile) ==
    IF col_spec.categories # << >> /\ ~InCategories(value, col_spec.categories)
    THEN << Violation(row_index, col_name, "category_check", "category",
                      InferSeverity(profile, "category"), value,
                      col_spec.categories, <<"unexpected category", col_name>>) >>
    ELSE IF ~IsStr(value)
    THEN << Violation(row_index, col_name, "category_check", "category",
                      InferSeverity(profile, "category"), value,
                      <<"string">>, <<"must be a string", col_name>>) >>
    ELSE << >>

\* validate._validate_value for one cell: the violations of the cell, or
\* raised when the call ends in an exception (round(numeric) raises
\* OverflowError on an infinite value)
ValidateValue(row_index, col_name, value, col_spec, profile) ==
    IF value.k \in {"none", "nan"}
    THEN [raised |-> FALSE,
          violations |->
             IF ~col_spec.nullable /\ profile.numeric_policy.nan_policy = "reject"
             THEN << Violation(row_index, col_name, "null_check", "null",
                               Get(profile.severity_map, "null", "error"),
                               value, <<"non-null">>, <<"null", col_name>>) >>
             ELSE << >>]
    ELSE IF col_spec.dtype = "bool"
    THEN [raised |-> FALSE,
          violations |->
             IF ~InBoolSet(value)
             THEN << Violation(row_index, col_name, "bool_check", "type",
                               InferSeverity(profile, "type"), value,
                               <<"0/1 or True/False">>, <<"must be boolean", col_name>>) >>
             ELSE << >>]
    ELSE IF col_spec.dtype = "categorical"
    THEN [raised |-> FALSE,
          violations |-> ValidateCategory(row_index, col_name, value, col_spec, profile)]
    ELSE IF col_spec.dtype \notin {"float", "int"}
    THEN [raised |-> FALSE, violations |-> << >>]
    ELSE IF value.k = "str"
    THEN [raised |-> FALSE,
          violations |->
             << Violation(row_index, col_name, "type_check", "type",
                          InferSeverity(profile, "type"), value,
                          <<col_spec.dtype>>, <<"not numeric", col_name>>) >>]
    ELSE
      LET numeric == CoerceNumeric(value)
          whole == col_spec.dtype = "int" \/ col_spec.integer_only
          integer ==
            IF whole /\ 2 * Abs(numeric.v - RoundUnits(numeric.v)) > IntegerTol
            THEN << Violation(row_index, col_name, "integer_check", "integer",
                              InferSeverity(profile, "integer"), value,
                              <<"integer">>, <<"integer", col_name>>) >>
            ELSE << >>
          below ==
            IF col_spec.minimum.k # "none" /\ Lt(numeric, col_spec.minimum)
            THEN << Violation(row_index, col_name, "min_check", "range",
                              InferSeverity(profile, "range"), value,
                              <<">=", col_spec.minimum>>, <<"below minimum", col_name>>) >>
            ELSE << >>
          above ==
            IF col_spec.maximum.k # "none" /\ Gt(numeric, col_spec.maximum)
            THEN << Violation(row_index, col_name, "max_check", "range",
                              InferSeverity(profile, "range"), value,
                              <<"<=", col_spec.maximum>>, <<"above maximum", col_name>>) >>
            ELSE << >>
          negative ==
            IF col_spec.non_negative /\ Lt(numeric, Num(0))
            THEN << Violation(row_index, col_name, "non_negative", "range",
                              InferSeverity(profile, "range"), value,
                              <<">=", Num(0)>>, <<"non-negative", col_name>>) >>
            ELSE << >>
      IN IF whole /\ ~IsFinite(numeric)
         THEN [raised |-> TRUE, violations |-> << >>]
         ELSE [raised |-> FALSE, violations |-> integer \o below \o above \o negative]

\* validate_dataframe, the loop over schema.columns for one row, from column i:
\* the violations, or raised when the validation of a cell ends in an exception
RECURSIVE ColumnViolations(_, _, _, _, _)
ColumnViolations(i, idx0, row, schema, profile) ==
    IF i > Len(schema) THEN [raised |-> FALSE, violations |-> << >>]
    ELSE LET col == schema[i]
             Joined(here, rest) ==
                 [raised |-> rest.raised, violations |-> here \o rest.violations]
             Checked(cell) ==
                 IF cell.raised THEN [raised |-> TRUE, violations |-> << >>]
                 ELSE Joined(cell.violations,
                             ColumnViolations(i + 1, idx0, row, schema, profile))
         IN IF col.name \notin DOMAIN row
            THEN Joined(<< Violation(idx0, col.name, "missing_column", "missing",
                                     "error", None, <<"column present">>,
                                     <<"missing", col.name>>) >>,
                        ColumnViolations(i + 1, idx0, row, schema, profile))
            ELSE Checked(ValidateValue(idx0, col.name, row[col.name], col, profile))

\* validate_dataframe, the loop over profile.relation_rules for one row, from
\* rule i: the violations, or raised when an evaluation ends in a KeyError
RECURSIVE RuleViolations(_, _, _, _)
RuleViolations(i, idx0, row, rules) ==
    IF i > Len(rules) THEN [raised |-> FALSE, violations |-> << >>]
    ELSE LET Reported(ev) ==
                 IF ev.raised THEN [raised |-> TRUE, violations |-> << >>]
                 ELSE LET Joined(rest) ==
                              [raised |-> rest.raised,
                               violations |-> (IF ~ev.ok /\ ev.violation # None
                                               THEN << ev.violation >> ELSE << >>)
                                              \o rest.violations]
                      IN Joined(RuleViolations(i + 1, idx0, row, rules))
         IN Reported(EvaluateRelation(row, idx0, rules[i]))

\* a row scan that reports a row's relation rules before its columns
RECURSIVE RowViolationsRulesFirst(_, _, _, _)
RowViolationsRulesFirst(i, frame, schema, profile) ==
    IF i > Len(frame) THEN [raised |-> FALSE, violations |-> << >>]
    ELSE LET cols == ColumnViolations(1, i - 1, frame[i], schema, profile)
             rules == RuleViolations(1, i - 1, frame[i], profile.relation_rules)
         IN IF rules.raised \/ cols.raised THEN [raised |-> TRUE, violations |-> << >>]
            ELSE LET rest == RowViolationsRulesFirst(i + 1, frame, schema, profile)
                 IN [raised |-> rest.raised,
                     violations |-> rules.violations \o cols.violations
                                    \o rest.violations]

\* validate_dataframe, the loop over the rows from row i (row i has index i - 1)
RECURSIVE RowViolations(_, _, _, _)
RowViolations(i, frame, schema, profile) ==
    IF i > Len(frame) THEN [raised |-> FALSE, violations |-> << >>]
    ELSE LET cols == ColumnViolations(1, i - 1, frame[i], schema, profile)
             rules == RuleViolations(1, i - 1, frame[i], profile.relation_rules)
         IN IF cols.raised \/ rules.raised THEN [raised |-> TRUE, violations |-> << >>]
            ELSE LET rest == RowViolations(i + 1, frame, schema, profile)
                 IN [raised |-> rest.raised,
                     violations |-> cols.violations \o rules.violations
                                    \o rest.violations]

\* df.head(n) for n >= 0
HeadRows(frame, n) == SubSeq(frame, 1, IF n < Len(frame) THEN n ELSE Len(frame))

\* validate.validate_dataframe(df, schema, profile, sample_limit) ->
\* (violations, len(df)); sample_limit is None or a number >= 0
ValidateDataframe(frame, schema, profile, sample_limit) ==
    LET considered == IF sample_limit # None /\ sample_limit.v # 0
                      THEN HeadRows(frame, sample_limit.v) ELSE frame
        scan == RowViolations(1, considered, schema, profile)
    IN [raised |-> scan.raised, violations |-> scan.violations,
        total_rows |-> Len(considered)]

\* Counter(key(act) for act in actions), as a dict
CountBy(acts, field) ==
    [key \in {acts[i][field] : i \in DOMAIN acts} |->
        Cardinality({i \in DOMAIN acts : acts[i][field] = key})]

\* build_validation_report keeps the first 5 columns and rules by count and
\* the first 50 violations
TopCount == 5
SampleCap == 50

\* seq[:n]
Prefix(seq, n) == SubSeq(seq, 1, IF n < Len(seq) THEN n ELSE Len(seq))

\* the keys of a dict filled in the order of the entries: the distinct values
\* of a field, in the order of their first entry
RECURSIVE KeysInOrder(_, _, _, _)
KeysInOrder(entries, field, i, keys) ==
    IF i > Len(entries) THEN keys
    ELSE IF \E j \in DOMAIN keys : keys[j] = entries[i][field]
    THEN KeysInOrder(entries, field, i + 1, keys)
    ELSE KeysInOrder(entries, field, i + 1, Append(keys, entries[i][field]))

\* sorted(by.items(), key=lambda x: x[1], reverse=True): the items by falling
\* count, items of equal count in the order of the dict
RECURSIVE SortedItems(_, _)
SortedItems(keys, counts) ==
    IF keys = << >> THEN << >>
    ELSE LET first == CHOOSE i \in DOMAIN keys :
                         /\ \A j \in DOMAIN keys : counts[keys[j]] <= counts[keys[i]]
                         /\ \A j \in 1 .. (i - 1) : counts[keys[j]] < counts[keys[i]]
             Others(j) == IF j < first THEN keys[j] ELSE keys[j + 1]
         IN << << keys[first], counts[keys[first]] >> >>
            \o SortedItems([j \in 1 .. (Len(keys) - 1) |-> Others(j)], counts)

\* validate.build_validation_report(violations, total_rows); a violation of a
\* relation rule that names no column is not counted in by_column
BuildValidationReport(violations, total_rows) ==
    LET HasColumn(v) == v.column # NoColumn
        with_column == SelectSeq(violations, HasColumn)
        by_column == CountBy(with_column, "column")
        by_rule == CountBy(violations, "rule_name")
    IN [total_rows |-> total_rows,
        total_violations |-> Len(violations),
        violations_by_severity |-> CountBy(violations, "severity"),
        top_violated_columns |->
            Prefix(SortedItems(KeysInOrder(with_column, "column", 1, << >>), by_column),
                   TopCount),
        top_violated_rules |->
            Prefix(SortedItems(KeysInOrder(violations, "rule_name", 1, << >>), by_rule),
                   TopCount),
        sample_violations |-> Prefix(violations, SampleCap)]

\* FlowShield.validate(df, schema, profile, sample_limit=...) -> the
\* ValidationReport, or raised when validate_dataframe ends in an exception
FlowShieldValidate(frame, schema, profile, sample_limit) ==
    LET Reported(res) ==
            IF res.raised
            THEN BuildValidationReport(<< >>, 0) @@ [raised |-> TRUE]
            ELSE BuildValidationReport(res.violations, res.total_rows) @@ [raised |-> FALSE]
    IN Reported(ValidateDataframe(frame, schema, profile, sample_limit))

\* ------------------------------------------------------------------ repair
\* rules.bounds_from_schema: per column a dict with the keys "min" and "max"
\* that the column declares
ColumnBounds(meta) ==
    LET keys == (IF meta.minimum.k # "none" THEN {"min"} ELSE {})
                \cup (IF meta.maximum.k # "none" THEN {"max"} ELSE {})
        declared == [key \in keys |-> IF key = "min" THEN meta.minimum ELSE meta.maximum]
    IN IF meta.non_negative
       THEN [key \in keys \cup {"min"} |->
                IF key = "min" THEN PyMax(Num(0), Get(declared, "min", Num(0)))
                ELSE declared[key]]
       ELSE declared

BoundsFromSchema(schema) ==
    [name \in {schema[i].name : i \in DOMAIN schema} |->
        ColumnBounds(CHOOSE meta \in {schema[i] : i \in DOMAIN schema} : meta.name = name)]

\* the sequence s with the float n inserted in ascending order
RECURSIVE InsertSorted(_, _)
InsertSorted(s, n) ==
    IF s = << >> THEN << n >>
    ELSE IF Le(n, Head(s)) THEN << n >> \o s
    ELSE << Head(s) >> \o InsertSorted(Tail(s), n)

\* pd.to_numeric(df[name], errors="coerce") without its NaN entries, sorted:
\* the numbers Series.median works on (it skips NaN), from row i on
RECURSIVE SortedNumbers(_, _, _)
SortedNumbers(frame, name, i) ==
    IF i > Len(frame) THEN << >>
    ELSE LET numeric == CoerceNumeric(frame[i][name])
             rest == SortedNumbers(frame, name, i + 1)
         IN IF ~IsNaN(numeric) THEN InsertSorted(rest, numeric) ELSE rest

\* float(series.median()): NaN when the column holds no number
SeriesMedian(frame, name) ==
    LET s == SortedNumbers(frame, name, 1)
        n == Len(s)
    IN IF n = 0 THEN NaN
       ELSE IF n % 2 = 1 THEN s[(n + 1) \div 2]
       ELSE Half(Add(s[n \div 2], s[n \div 2 + 1]))

\* an imputation that ignores the fitted statistics
GetImputeValueZero(context, col_name, strategy) == Num(0)

\* RepairContext.update_stats from schema column i on: df[col.name] raises
\* KeyError for a column the training data lacks, after the statistics of the
\* columns before it have been stored
RECURSIVE UpdateStats(_, _, _, _)
UpdateStats(stats, frame, schema, i) ==
    IF i > Len(schema) THEN [raised |-> FALSE, stats |-> stats]
    ELSE LET col == schema[i]
         IN IF col.dtype \notin {"float", "int"}
            THEN UpdateStats(stats, frame, schema, i + 1)
            ELSE IF col.name \notin DOMAIN frame[1]
            THEN [raised |-> TRUE, stats |-> stats]
            ELSE UpdateStats((col.name :> SeriesMedian(frame, col.name)) @@ stats,
                             frame, schema, i + 1)

\* RepairContext.update_stats: the columns whose statistic the call stores, the
\* numeric columns of the schema up to the first one the training data lacks
FittedColumns(frame, schema) ==
    {schema[j].name : j \in {i \in DOMAIN schema :
        \A h \in 1..i : schema[h].dtype \in {"float", "int"} => schema[h].name \in DOMAIN frame[1]}}
    \cap {schema[j].name : j \in {i \in DOMAIN schema : schema[i].dtype \in {"float", "int"}}}

\* RepairContext.get_impute_value
GetImputeValue(context, col_name, strategy) ==
    IF strategy = "zero" THEN Num(0)
    ELSE IF strategy \in {"mean", "median"} THEN Get(context.impute_stats, col_name, Num(0))
    ELSE Num(0)

\* repair._round_value
CeilUnits(n) == -FloorUnits(-n)
RoundValue(value, strategy) ==
    IF value.k # "num" THEN value
    ELSE IF strategy = "floor" THEN Num(FloorUnits(value.v))
    ELSE IF strategy = "ceil" THEN Num(CeilUnits(value.v))
    ELSE Num(RoundUnits(value.v))

\* a minimum test that also fires on a value equal to the minimum
NeedsMinClipAtMinimum(col, numeric, clip) ==
    col.minimum.k # "none" /\ Le(numeric, col.minimum) /\ clip

\* repair_dataframe, the condition of the min_clip step (line 109)
NeedsMinClip(col, numeric, clip) ==
    col.minimum.k # "none" /\ Lt(numeric, col.minimum) /\ clip

\* repair_dataframe, the body of the column loop for one float or int column
\* (lines 71-156): the cell as left in `repaired` and the actions logged.
\* skipped is the `continue` of a NaN that is not imputed.
RepairNumericCell(idx0, col, value, profile, context) ==
    LET policy == profile.numeric_policy
        clip == Get(policy, "clip", FALSE)
        original == value
        n0 == CoerceNumeric(value)
        imputing == IsNaN(n0) /\ policy.nan_policy = "impute"
        skipped == IsNaN(n0) /\ ~imputing
        n1 == IF imputing THEN GetImputeValue(context, col.name, policy.impute) ELSE n0
        a1 == IF imputing
              THEN << RepairAction(idx0, col.name, original, n1, "impute", "nan_policy",
                                   policy.impute, None) >>
              ELSE << >>
        neg == col.non_negative /\ Lt(n1, Num(0))
        n2 == IF neg THEN PyMax(Num(0), n1) ELSE n1
        a2 == IF neg
              THEN << RepairAction(idx0, col.name, original, n2, "non_negative",
                                   "non_negative", "clip",
                                   Sub(n2, CoerceNumeric(original))) >>
              ELSE << >>
        low == NeedsMinClip(col, n2, clip)
        n3 == IF low THEN col.minimum ELSE n2
        a3 == IF low
              THEN << RepairAction(idx0, col.name, original, n3, "min_clip", "min_check",
                                   "clip", Sub(n3, CoerceNumeric(original))) >>
              ELSE << >>
        high == col.maximum.k # "none" /\ Gt(n3, col.maximum) /\ clip
        n4 == IF high THEN col.maximum ELSE n3
        a4 == IF high
              THEN << RepairAction(idx0, col.name, original, n4, "max_clip", "max_check",
                                   "clip", Sub(n4, CoerceNumeric(original))) >>
              ELSE << >>
        rounding == col.integer_only \/ col.dtype = "int"
        rounded == RoundValue(n4, Get(profile.int_policy, "rounding", "nearest"))
        changed == rounding /\ Ne(rounded, n4)
        a5 == IF changed
              THEN << RepairAction(idx0, col.name, original, rounded, "integer_only",
                                   "integer_check", profile.int_policy.rounding,
                                   Sub(rounded, CoerceNumeric(original))) >>
              ELSE << >>
        written == imputing \/ neg \/ low \/ high \/ changed
    IN IF skipped THEN [cell |-> value, actions |-> << >>]
       ELSE [cell |-> IF changed THEN rounded
                      ELSE IF written THEN n4 ELSE value,
             actions |-> a1 \o a2 \o a3 \o a4 \o a5]

\* repair_dataframe, the body of the column loop for one bool column (lines
\* 157-175): a value of {True, False, 0, 1} is rewritten as a bool and no
\* action is logged; any other value is coerced and logged in aggressive mode
RepairBoolCell(idx0, col, value, profile) ==
    IF InBoolSet(value) THEN [cell |-> PyBool(value), actions |-> << >>]
    ELSE IF profile.repair_mode = "aggressive"
    THEN [cell |-> PyBool(value),
          actions |-> << RepairAction(idx0, col.name, value, PyBool(value),
                                      "coerce bool", "bool_check", "coerce", None) >>]
    ELSE [cell |-> value, actions |-> << >>]

\* repair_dataframe, the categorical branch of the column loop (lines 176-191)
RepairCategoryCell(idx0, col, value, profile) ==
    IF col.categories # << >> /\ ~InCategories(value, col.categories)
       /\ profile.repair_mode = "aggressive"
    THEN [cell |-> None,
          actions |-> << RepairAction(idx0, col.name, value, None, "unknown category",
                                      "category_check", "nullify", None) >>]
    ELSE [cell |-> value, actions |-> << >>]

\* repair_dataframe, the dtype branches of the column loop (lines 73, 157, 176)
RepairCell(idx0, col, value, profile, context) ==
    IF col.dtype \in {"float", "int"}
    THEN RepairNumericCell(idx0, col, value, profile, context)
    ELSE IF col.dtype = "bool" THEN RepairBoolCell(idx0, col, value, profile)
    ELSE IF col.dtype = "categorical" THEN RepairCategoryCell(idx0, col, value, profile)
    ELSE [cell |-> value, actions |-> << >>]

\* a column loop that logs its repairs but leaves the working row as it was
RECURSIVE ColumnPhaseStaleRow(_, _, _, _, _, _)
ColumnPhaseStaleRow(i, idx0, working, schema, profile, context) ==
    IF i > Len(schema) THEN [raised |-> FALSE, row |-> working, actions |-> << >>]
    ELSE LET col == schema[i]
         IN IF col.name \notin DOMAIN working
            THEN [raised |-> TRUE, row |-> working, actions |-> << >>]
            ELSE LET cell == RepairCell(idx0, col, working[col.name], profile, context)
                     rest == ColumnPhaseStaleRow(i + 1, idx0, working, schema, profile,
                                                 context)
                 IN [raised |-> rest.raised, row |-> rest.row,
                     actions |-> cell.actions \o rest.actions]

\* repair_dataframe, the column loop of one row (lines 70-193) from schema
\* column i: the working row and the actions, or raised when row[col.name]
\* ends in a KeyError (the dataset has no such column)
RECURSIVE ColumnPhase(_, _, _, _, _, _)
ColumnPhase(i, idx0, working, schema, profile, context) ==
    IF i > Len(schema) THEN [raised |-> FALSE, row |-> working, actions |-> << >>]
    ELSE LET col == schema[i]
         IN IF col.name \notin DOMAIN working
            THEN [raised |-> TRUE, row |-> working, actions |-> << >>]
            ELSE LET cell == RepairCell(idx0, col, working[col.name], profile, context)
                     rest == ColumnPhase(i + 1, idx0,
                                         [working EXCEPT ![col.name] = cell.cell],
                                         schema, profile, context)
                 IN [raised |-> rest.raised, row |-> rest.row,
                     actions |-> cell.actions \o rest.actions]

\* an order repair that lowers the right column to the left one instead
RepairOrderLowerRight(row, idx0, rule, violation, bounds) ==
    LET left == rule.params.left
        right == rule.params.right
        lv == SafeFloat(row[left])
        rv == SafeFloat(row[right])
        new_rv == PyMin(lv, rv)
    IN IF Ne(new_rv, row[right])
       THEN [row |-> [row EXCEPT ![right] = new_rv],
             actions |-> << RepairAction(idx0, right, row[right], new_rv,
                                         IF violation # None THEN violation.message
                                         ELSE "order repair",
                                         rule.name, rule.repair_strategy,
                                         Sub(new_rv, rv)) >>]
       ELSE [row |-> row, actions |-> << >>]

\* repair_relation, ORDER with operator ">=", safe mode (lines 198-218)
RepairOrderSafe(row, idx0, rule, violation, bounds) ==
    LET left == rule.params.left
        right == rule.params.right
        lv == SafeFloat(row[left])
        rv == SafeFloat(row[right])
        target == PyMax(lv, rv)
        lb == Get(bounds, left, EmptyDict)
        raised1 == PyMax(rv, IF "min" \in DOMAIN lb THEN lb["min"] ELSE rv)
        new_lv == IF IsFinite(Get(lb, "max", PosInf))
                  THEN PyMin(raised1, Get(lb, "max", raised1))
                  ELSE target
    IN IF Ne(new_lv, row[left])
       THEN [row |-> [row EXCEPT ![left] = new_lv],
             actions |-> << RepairAction(idx0, left, row[left], new_lv,
                                         IF violation # None THEN violation.message
                                         ELSE "order repair",
                                         rule.name, rule.repair_strategy,
                                         Sub(new_lv, lv)) >>]
       ELSE [row |-> row, actions |-> << >>]

\* repair_relation, ORDER with operator ">=", aggressive mode (lines 219-250)
RepairOrderAggressive(row, idx0, rule, violation, bounds) ==
    LET left == rule.params.left
        right == rule.params.right
        lv == SafeFloat(row[left])
        rv == SafeFloat(row[right])
        midpoint == Half(Add(lv, rv))
        new_lv == PyMax(midpoint, Get(Get(bounds, left, EmptyDict), "min", NegInf))
        new_rv == PyMin(midpoint, Get(Get(bounds, right, EmptyDict), "max", PosInf))
        reason == IF violation # None THEN violation.message ELSE "order repair"
        move_left == Ne(new_lv, row[left])
        row1 == IF move_left THEN [row EXCEPT ![left] = new_lv] ELSE row
        a1 == IF move_left
              THEN << RepairAction(idx0, left, row[left], new_lv, reason, rule.name,
                                   rule.repair_strategy, Sub(new_lv, lv)) >>
              ELSE << >>
        move_right == Ne(new_rv, row1[right])
        row2 == IF move_right THEN [row1 EXCEPT ![right] = new_rv] ELSE row1
        a2 == IF move_right
              THEN << RepairAction(idx0, right, row1[right], new_rv, reason, rule.name,
                                   rule.repair_strategy, Sub(new_rv, rv)) >>
              ELSE << >>
    IN [row |-> row2, actions |-> a1 \o a2]

\* repair_relation, NONDECREASING_GROUP, first loop (lines 344-351): the
\* corrected values from position i with the running maximum current_max
\* a prefix maximum that forgets the running maximum once it has used it
RECURSIVE PrefixMaxForgetful(_, _, _)
PrefixMaxForgetful(values, i, current_max) ==
    IF i > Len(values) THEN << >>
    ELSE IF Lt(values[i], current_max)
         THEN << current_max >> \o PrefixMaxForgetful(values, i + 1, values[i])
         ELSE << values[i] >> \o PrefixMaxForgetful(values, i + 1, values[i])

RECURSIVE PrefixMax(_, _, _)
PrefixMax(values, i, current_max) ==
    IF i > Len(values) THEN << >>
    ELSE IF Lt(values[i], current_max)
         THEN << current_max >> \o PrefixMax(values, i + 1, current_max)
         ELSE << values[i] >> \o PrefixMax(values, i + 1, values[i])

\* repair_relation, NONDECREASING_GROUP, second loop (lines 352-366) from
\* position i
RECURSIVE ApplyCorrected(_, _, _, _, _, _, _)
ApplyCorrected(row, idx0, rule, columns, values, corrected, i) ==
    IF i > Len(columns) THEN [row |-> row, actions |-> << >>]
    ELSE IF Ne(corrected[i], values[i])
    THEN LET rest == ApplyCorrected([row EXCEPT ![columns[i]] = corrected[i]], idx0,
                                    rule, columns, values, corrected, i + 1)
         IN [row |-> rest.row,
             actions |-> << RepairAction(idx0, columns[i], row[columns[i]], corrected[i],
                                         "nondecreasing repair", rule.name,
                                         rule.repair_strategy,
                                         Sub(corrected[i], values[i])) >>
                         \o rest.actions]
    ELSE ApplyCorrected(row, idx0, rule, columns, values, corrected, i + 1)

\* repair_relation, NONDECREASING_GROUP branch (lines 341-366); row[c] of the
\* list comprehension raises KeyError for a column the row does not have
RepairGroup(row, idx0, rule) ==
    LET columns == Get(rule.params, "columns", << >>)
    IN IF \E i \in DOMAIN columns : columns[i] \notin DOMAIN row
       THEN [raised |-> TRUE, row |-> row, actions |-> << >>]
       ELSE LET values == [i \in DOMAIN columns |-> SafeFloat(row[columns[i]])]
                corrected == PrefixMax(values, 1, NegInf)
                done == ApplyCorrected(row, idx0, rule, columns, values, corrected, 1)
            IN [raised |-> FALSE, row |-> done.row, actions |-> done.actions]

\* x / n for a positive whole number n (exact when n divides x on the grid)
DivideBy(x, n) == IF x.k = "num" THEN Num(x.v \div n) ELSE x

\* a sum repair that limits a lowered column by its maximum only, not by its
\* minimum
RECURSIVE RepairSumColumnsUnfloored(_, _, _, _, _, _, _)
RepairSumColumnsUnfloored(row, idx0, rule, share, raising, bounds, i) ==
    LET columns == rule.params.columns
    IN IF i > Len(columns) THEN [row |-> row, actions |-> << >>]
       ELSE LET col == columns[i]
                old == SafeFloat(row[col])
                new_val == PyMin(IF raising THEN Add(old, share) ELSE Sub(old, share),
                                 Get(Get(bounds, col, EmptyDict), "max", PosInf))
                rest == RepairSumColumnsUnfloored([row EXCEPT ![col] = new_val], idx0,
                                                  rule, share, raising, bounds, i + 1)
            IN [row |-> rest.row,
                actions |-> << RepairAction(idx0, col, row[col], new_val,
                                            "sum_bounds repair", rule.name,
                                            rule.repair_strategy, Sub(new_val, old)) >>
                            \o rest.actions]

\* repair_relation, SUM_BOUNDS, the loop over the columns from position i
\* (lines 262-279 when raising, lines 283-300 when lowering)
RECURSIVE RepairSumColumns(_, _, _, _, _, _, _)
RepairSumColumns(row, idx0, rule, share, raising, bounds, i) ==
    LET columns == rule.params.columns
    IN IF i > Len(columns) THEN [row |-> row, actions |-> << >>]
       ELSE LET col == columns[i]
                old == SafeFloat(row[col])
                new_val == IF raising
                           THEN PyMin(Add(old, share),
                                      Get(Get(bounds, col, EmptyDict), "max", PosInf))
                           ELSE PyMax(Sub(old, share),
                                      Get(Get(bounds, col, EmptyDict), "min", NegInf))
                rest == RepairSumColumns([row EXCEPT ![col] = new_val], idx0, rule,
                                         share, raising, bounds, i + 1)
            IN [row |-> rest.row,
                actions |-> << RepairAction(idx0, col, row[col], new_val,
                                            "sum_bounds repair", rule.name,
                                            rule.repair_strategy, Sub(new_val, old)) >>
                            \o rest.actions]

\* repair_relation, SUM_BOUNDS branch (lines 254-300); raised is TRUE when
\* the share deficit / len(columns) or surplus / len(columns) divides by zero
\* (ZeroDivisionError on an empty list of columns)
RepairSum(row, idx0, rule, bounds) ==
    LET columns == Get(rule.params, "columns", << >>)
        minimum == Get(rule.params, "min", NegInf)
        maximum == Get(rule.params, "max", PosInf)
        current == NanSum(row, columns, 1)
    IN IF ~Lt(current, minimum) /\ ~Gt(current, maximum)
       THEN [raised |-> FALSE, row |-> row, actions |-> << >>]
       ELSE IF Len(columns) = 0
       THEN [raised |-> TRUE, row |-> row, actions |-> << >>]
       ELSE IF Lt(current, minimum)
       THEN RepairSumColumns(row, idx0, rule,
                             DivideBy(Sub(minimum, current), Len(columns)), TRUE, bounds, 1)
            @@ [raised |-> FALSE]
       ELSE RepairSumColumns(row, idx0, rule,
                             DivideBy(Sub(current, maximum), Len(columns)), FALSE, bounds, 1)
            @@ [raised |-> FALSE]

\* a ratio repair that adjusts the denominator as well
RepairRatioBothCells(row, idx0, rule) ==
    LET num == rule.params.numerator
        den == rule.params.denominator
        divisor == Add(SafeFloat(row[den]), rule.params.eps)
        low == QuotientLt(SafeFloat(row[num]), divisor, Get(rule.params, "min", NegInf))
        bound == IF low THEN rule.params["min"] ELSE rule.params["max"]
        desired_num == Mul(bound, divisor)
    IN [row |-> [row EXCEPT ![num] = desired_num, ![den] = divisor],
        actions |-> << RepairAction(idx0, num, row[num], desired_num,
                                    IF low THEN "ratio lower bound" ELSE "ratio upper bound",
                                    rule.name, rule.repair_strategy,
                                    Sub(desired_num, SafeFloat(row[num]))),
                       RepairAction(idx0, den, row[den], divisor,
                                    IF low THEN "ratio lower bound" ELSE "ratio upper bound",
                                    rule.name, rule.repair_strategy,
                                    Sub(divisor, SafeFloat(row[den]))) >>]

\* repair_relation, RATIO_BOUNDS branch (lines 301-340); it is entered only
\* after evaluate_relation has returned a violation, so the divisor is not
\* zero
RepairRatio(row, idx0, rule) ==
    LET num == rule.params.numerator
        den == rule.params.denominator
        eps == rule.params.eps
        minimum == Get(rule.params, "min", NegInf)
        maximum == Get(rule.params, "max", PosInf)
        rv == SafeFloat(row[den])
        divisor == Add(rv, eps)
        old == row[num]
    IN IF QuotientLt(SafeFloat(row[num]), divisor, minimum)
       THEN LET desired_num == Mul(minimum, divisor)
            IN [row |-> [row EXCEPT ![num] = desired_num],
                actions |-> << RepairAction(idx0, num, old, desired_num,
                                            "ratio lower bound", rule.name,
                                            rule.repair_strategy,
                                            Sub(desired_num, SafeFloat(old))) >>]
       ELSE IF QuotientGt(SafeFloat(row[num]), divisor, maximum)
       THEN LET desired_num == Mul(maximum, divisor)
            IN [row |-> [row EXCEPT ![num] = desired_num],
                actions |-> << RepairAction(idx0, num, old, desired_num,
                                            "ratio upper bound", rule.name,
                                            rule.repair_strategy,
                                            Sub(desired_num, SafeFloat(old))) >>]
       ELSE [row |-> row, actions |-> << >>]

\* an IF_THEN repair that sets the constrained column to zero
RepairIfThenToZero(row, idx0, rule) ==
    LET then_feature == rule.params.then_feature
    IN [row |-> [row EXCEPT ![then_feature] = Num(0)],
        actions |-> << RepairAction(idx0, then_feature, row[then_feature], Num(0),
                                    "if_then repair", rule.name, rule.repair_strategy,
                                    Sub(Num(0), SafeFloat(row[then_feature]))) >>]

\* repair_relation on an IF_THEN rule: none of the branches of lines 191-366
\* is for this type, so the call falls through to the return of line 367
RepairIfThen(row, idx0, rule) == [row |-> row, actions |-> << >>]

\* repair_relation, line 252: the rule's params are overwritten
SwapOrder(rule) ==
    [rule EXCEPT !.params = [left |-> rule.params.right, right |-> rule.params.left,
                             operator |-> ">="]]

\* rules.repair_relation(row, rule, profile, bounds) -> (row, actions).
\* rule is the rule object as the call leaves it; raised is TRUE when the
\* call ends in an exception (KeyError, ZeroDivisionError, TypeError).
RECURSIVE RepairRelation(_, _, _, _, _)
RepairRelation(row, idx0, rule, profile, bounds) ==
    LET same == [raised |-> FALSE, row |-> row, actions |-> << >>, rule |-> rule]
        Repaired(ev) ==
            IF ev.raised
            THEN [raised |-> TRUE, row |-> row, actions |-> << >>, rule |-> rule]
            ELSE IF ev.ok \/ rule.repair_strategy = "none" THEN same
            ELSE IF rule.type = "ORDER"
            THEN LET operator == Get(rule.params, "operator", ">=")
                 IN IF operator = ">="
                    THEN (IF profile.repair_mode = "safe"
                          THEN RepairOrderSafe(row, idx0, rule, ev.violation, bounds)
                          ELSE RepairOrderAggressive(row, idx0, rule, ev.violation, bounds))
                         @@ [raised |-> FALSE, rule |-> rule]
                    ELSE IF operator = "<="
                    THEN RepairRelation(row, idx0, SwapOrder(rule), profile, bounds)
                    ELSE same
            ELSE IF rule.type = "SUM_BOUNDS"
            THEN RepairSum(row, idx0, rule, bounds) @@ [rule |-> rule]
            ELSE IF rule.type = "RATIO_BOUNDS"
            THEN RepairRatio(row, idx0, rule) @@ [raised |-> FALSE, rule |-> rule]
            ELSE IF rule.type = "NONDECREASING_GROUP"
            THEN RepairGroup(row, idx0, rule) @@ [rule |-> rule]
            ELSE RepairIfThen(row, idx0, rule) @@ [raised |-> FALSE, rule |-> rule]
    IN Repaired(EvaluateRelation(row, idx0, rule))

\* abs of a float
AbsFloat(x) ==
    IF x.k = "num" THEN Num(Abs(x.v)) ELSE IF x.k = "-inf" THEN PosInf ELSE x

\* generate_repair_report, the max_delta loop (lines 209-212) from action i
RECURSIVE MaxDelta(_, _, _)
MaxDelta(acts, i, max_delta) ==
    IF i > Len(acts) THEN max_delta
    ELSE IF acts[i].delta = None THEN MaxDelta(acts, i + 1, max_delta)
    ELSE MaxDelta(acts, i + 1,
                  (acts[i].column :> PyMax(Get(max_delta, acts[i].column, Num(0)),
                                           AbsFloat(acts[i].delta)))
                  @@ max_delta)

\* repair.generate_repair_report(actions, validation_before, validation_after)
GenerateRepairReport(acts, before, after) ==
    [total_actions |-> Len(acts),
     actions_by_column |-> CountBy(acts, "column"),
     actions_by_rule |-> CountBy(acts, "rule_name"),
     max_delta_per_column |-> MaxDelta(acts, 1, EmptyDict),
     actions |-> acts,
     validation_before |-> before,
     validation_after |-> after]

\* ------------------------------------------------------------------ inputs
WholeValues == {Whole(w) : w \in (0 - MaxVal) .. MaxVal} \cup {NaN}
\* whole and half numbers, for columns that are rounded
HalfValues == {Num(h * (Scale \div 2)) : h \in (0 - 2 * MaxVal) .. (2 * MaxVal)} \cup {NaN}

\* profiles.flow_safe
flow_safe ==
    Profile("flow_safe", TRUE, "median", "impute", "nearest",
            << OrderRule("packet_order", "bytes", "packets", ">=",
                         "Bytes expected to be at least packets", "warn",
                         "minimize_delta") >>,
            [range |-> "warn", type |-> "error", null |-> "error"], "safe")

\* profiles.strict_flow
PercentileColumns == <<"p25", "p50", "p75", "p90", "p95", "p99">>
strict_flow ==
    Profile("strict_flow", TRUE, "none", "reject", "nearest",
            << GroupRule("percentile_order", PercentileColumns,
                         "Percentiles must be non-decreasing", "error",
                         "minimize_delta") >>,
            [range |-> "error", type |-> "error", null |-> "error"], "safe")

\* profiles.telemetry_noisy
telemetry_noisy ==
    Profile("telemetry_noisy", TRUE, "mean", "impute", "nearest",
            << IfThenRule("duration_non_negative", "duration", ">=", Whole(0), "bytes",
                          DictConstraint([min |-> Whole(0)]),
                          "Duration implies non-negative bytes", "warn", "clip") >>,
            [range |-> "warn", type |-> "warn", null |-> "warn"], "aggressive")

\* caller-defined profiles with one ORDER rule over bytes and packets
OrderProfile(clip, nan_policy, operator, strategy, mode) ==
    Profile("order", clip, "zero", nan_policy, "nearest",
            << OrderRule("packet_order", "bytes", "packets", operator,
                         "bytes and packets out of order", "error", strategy) >>,
            [range |-> "warn", type |-> "error", null |-> "error"], mode)

OrderProfiles ==
    {OrderProfile(TRUE, nan_policy, operator, "minimize_delta", mode) :
        nan_policy \in {"impute", "reject"}, operator \in {">=", "<="},
        mode \in {"safe", "aggressive"}}
    \cup {OrderProfile(FALSE, "reject", ">=", "clip", mode) : mode \in {"safe", "aggressive"}}
    \cup {OrderProfile(TRUE, "reject", ">=", "none", "safe")}

\* caller-defined profiles with one NONDECREASING_GROUP rule over the first
\* three percentiles
GroupProfiles ==
    {Profile("percentiles", clip, "zero", nan_policy, "nearest",
             << GroupRule("percentile_order", <<"p25", "p50", "p75">>,
                          "Percentiles must be non-decreasing", "error",
                          "minimize_delta") >>,
             [range |-> "error", type |-> "error", null |-> "error"], "safe") :
        clip \in BOOLEAN, nan_policy \in {"impute", "reject"}}

\* caller-defined profiles with three rules over bytes, packets and duration
ChainProfiles ==
    {Profile("chain", TRUE, "zero", "reject", "nearest",
             << OrderRule("bytes_packets", "bytes", "packets", ">=",
                          "bytes below packets", "error", "minimize_delta"),
                GroupRule("packets_bytes", <<"packets", "bytes">>,
                          "packets above bytes", "error", "minimize_delta"),
                OrderRule("packets_duration", "packets", "duration", ">=",
                          "packets below duration", "error", "clip") >>,
             [range |-> "error", type |-> "error", null |-> "error"], mode) :
        mode \in {"safe", "aggressive"}}

\* caller-defined profiles with one SUM_BOUNDS rule over bytes and packets
SumProfiles ==
    {Profile("sums", clip, "zero", "reject", "nearest",
             << SumRule("total_bounds", <<"bytes", "packets">>, bounds,
                        "sum out of bounds", "error", "minimize_delta") >>,
             [range |-> "error", type |-> "error", null |-> "error"], "safe") :
        clip \in BOOLEAN,
        bounds \in {[min |-> Whole(1), max |-> Whole(1)], [max |-> Whole(1)]}}
    \* a rule that lists no column: the empty sum 0.0 is below its minimum
    \cup {Profile("sums", TRUE, "zero", "reject", "nearest",
                  << SumRule("total_bounds", << >>, [min |-> Whole(1)],
                             "sum out of bounds", "error", "minimize_delta") >>,
                  [range |-> "error", type |-> "error", null |-> "error"], "safe")}

\* caller-defined profiles with one RATIO_BOUNDS rule: bytes per packet
RatioProfiles ==
    {Profile("ratios", TRUE, "zero", "reject", "nearest",
             << RatioRule("bytes_per_packet", "bytes", "packets", extra,
                          "ratio out of bounds", "error", "clip") >>,
             [range |-> "error", type |-> "error", null |-> "error"], "safe") :
        extra \in {[eps |-> Whole(1), min |-> Whole(1), max |-> Whole(2)],
                   [eps |-> Whole(1), max |-> Whole(1)]}}

\* telemetry_noisy and caller-defined variants of its IF_THEN rule
IfThenProfiles ==
    {[telemetry_noisy EXCEPT !.relation_rules =
         << IfThenRule("duration_non_negative", "duration", op, Whole(0), "bytes",
                       constraint, "Duration implies non-negative bytes", "warn",
                       strategy) >>] :
        op \in {">=", "<="},
        constraint \in {StrConstraint("non_negative"), DictConstraint([min |-> Whole(0)]),
                        DictConstraint([max |-> Whole(1)])},
        strategy \in {"clip", "minimize_delta"}}

\* an int column that is rounded
IntProfiles ==
    {Profile("ints", clip, "zero", "impute", rounding, << >>,
             [range |-> "error", integer |-> "error"], "safe") :
        clip \in BOOLEAN, rounding \in {"nearest", "floor", "ceil"}}
    \cup {Profile("ints", TRUE, "median", "impute", "nearest", << >>,
                  [range |-> "error", integer |-> "error"], "safe")}

\* FeatureSchema.from_columns(names, defaults={"dtype": "float", "minimum": 0})
\* as in tests/test_validate.py and tests/test_cli.py
MinZeroSchema(names) ==
    [i \in DOMAIN names |-> FloatCol(names[i], Whole(0), None, FALSE)]
PlainSchema(names) ==
    [i \in DOMAIN names |-> FloatCol(names[i], None, None, FALSE)]
BoundedSchema(names) ==
    [i \in DOMAIN names |-> FloatCol(names[i], Whole(0), Whole(1), FALSE)]

OrderSchemas ==
    { MinZeroSchema(<<"bytes", "packets">>),
      BoundedSchema(<<"bytes", "packets">>),
      << FloatCol("bytes", None, None, FALSE), FloatCol("packets", None, None, TRUE) >> }

GroupSchemas ==
    { PlainSchema(<<"p25", "p50", "p75">>),
      << FloatCol("p25", Whole(0), Whole(2), FALSE), FloatCol("p50", Whole(0), Whole(1), FALSE),
         FloatCol("p75", Whole(0), Whole(2), FALSE) >> }

SumSchemas ==
    { PlainSchema(<<"bytes", "packets">>),
      << FloatCol("bytes", Whole(0), Whole(2), FALSE),
         FloatCol("packets", Whole(0), Whole(1), FALSE) >> }

IntSchemas ==
    { << Col("packets", "int", Whole(0), Whole(1), FALSE, TRUE, FALSE) >>,
      << Col("packets", "float", Whole(0), None, TRUE, FALSE, TRUE) >> }

\* a boolean flag column and the scalars it may arrive with
BoolSchemas == { << Col("flag", "bool", None, None, FALSE, FALSE, FALSE) >> }
BoolProfiles ==
    {Profile("flags", TRUE, "zero", "reject", "nearest", << >>,
             [type |-> "error", null |-> "error"], mode) :
        mode \in {"safe", "aggressive"}}
BoolValues ==
    {Bool(TRUE), Bool(FALSE), Whole(0), Whole(1), Whole(2), NaN, None, Str}

\* the cells of the datasets of several rows
RowValues == {Whole(-1), Num(Scale \div 2), Whole(1), NaN}

\* the training datasets of fit_repair_stats other than the dataset itself
TrainFrames == { << [packets |-> Whole(1)] >> }

\* the JSON document that load_state finds in a file save_state did not
\* write: one without the key "impute_stats"
StateFiles == { EmptyDict }

\* the cells of the datasets of two rows
PairValues == {Whole(-1), Whole(0), Whole(1), NaN}

\* cells of a float column that hold strings
StringValues == {NumText(Scale), Str, Whole(-1)}

\* float cells that hold an infinity
InfiniteValues == {NegInf, Whole(0), PosInf}

\* a categorical column with and without declared categories, and the
\* scalars it may arrive with
CategorySchemas ==
    { << CategoricalCol("proto", << Text(1), Text(2) >>, FALSE) >>,
      << CategoricalCol("proto", << >>, FALSE) >> }
CategoryValues == {Text(1), Text(3), NumText(Scale), Whole(1), Bool(TRUE), None}

\* the columns of a dataset wide enough for two rows to give more violations
\* than a ValidationReport keeps as samples
WideColumns ==
    <<"c01", "c02", "c03", "c04", "c05", "c06", "c07", "c08", "c09",
      "c10", "c11", "c12", "c13", "c14", "c15", "c16", "c17", "c18",
      "c19", "c20", "c21", "c22", "c23", "c24", "c25", "c26">>

\* schema, profile, the columns of the dataset, the values of its cells and
\* the largest number of rows
Fixture(schema, profile, columns, values, rows) ==
    [schema |-> schema, profile |-> profile, columns |-> columns, values |-> values,
     rows |-> rows]

\* the schema, profile and dataset columns a run is given
Fixtures ==
    {Fixture(s, p, {"bytes", "packets"}, WholeValues, 1) : s \in OrderSchemas, p \in OrderProfiles}
    \cup {Fixture(s, p, {"p25", "p50", "p75"}, WholeValues, 1) : s \in GroupSchemas, p \in GroupProfiles}
    \* strict_flow on a dataset of three of its six percentiles, and of all six
    \cup {Fixture(PlainSchema(<<"p25", "p50", "p75">>), strict_flow, {"p25", "p50", "p75"},
                  WholeValues, 1),
          Fixture(PlainSchema(PercentileColumns), strict_flow,
                  {PercentileColumns[i] : i \in DOMAIN PercentileColumns},
                  {Whole(0), Whole(1)}, 1)}
    \cup {Fixture(PlainSchema(<<"bytes", "packets", "duration">>), p,
                  {"bytes", "packets", "duration"}, WholeValues, 1) : p \in ChainProfiles}
    \cup {Fixture(s, p, {"bytes", "packets"}, WholeValues, 1) : s \in SumSchemas, p \in SumProfiles}
    \cup {Fixture(PlainSchema(<<"bytes", "packets", "duration">>), p,
                  {"bytes", "packets", "duration"}, WholeValues, 1) : p \in RatioProfiles}
    \cup {Fixture(PlainSchema(<<"duration", "bytes">>), p, {"duration", "bytes"},
                  WholeValues, 1) : p \in IfThenProfiles}
    \cup {Fixture(s, p, {"packets"}, HalfValues, 1) : s \in IntSchemas, p \in IntProfiles}
    \cup {Fixture(s, p, {"packets"}, RowValues, MaxRows) : s \in IntSchemas, p \in IntProfiles}
    \cup {Fixture(s, p, {"flag"}, BoolValues, 1) : s \in BoolSchemas, p \in BoolProfiles}
    \cup {Fixture(s, p, {"proto"}, CategoryValues, 1) : s \in CategorySchemas, p \in BoolProfiles}
    \* infinite cells in columns without bounds
    \cup {Fixture(PlainSchema(<<"bytes", "packets">>),
                  OrderProfile(TRUE, "reject", ">=", "minimize_delta", "aggressive"),
                  {"bytes", "packets"}, InfiniteValues, 1)}
    \* strings in float columns
    \cup {Fixture(MinZeroSchema(<<"bytes", "packets">>), flow_safe, {"bytes", "packets"},
                  StringValues, 1)}
    \* infinite cells in a column of whole numbers
    \cup {Fixture(s, p, {"packets"}, InfiniteValues, 1) : s \in IntSchemas, p \in IntProfiles}
    \* two rows with a column bound and a relation rule
    \cup {Fixture(MinZeroSchema(<<"bytes", "packets">>),
                  OrderProfile(TRUE, "reject", ">=", "minimize_delta", "safe"),
                  {"bytes", "packets"}, PairValues, 2)}
    \* every cell of a wide dataset below the minimum of its column, no clipping
    \cup {Fixture(MinZeroSchema(WideColumns),
                  Profile("ints", FALSE, "zero", "impute", "nearest", << >>,
                          [range |-> "error", integer |-> "error"], "safe"),
                  {WideColumns[i] : i \in DOMAIN WideColumns}, {Whole(-1)}, 2)}
    \* tests/test_validate.py: flow_safe on data without a bytes column
    \cup {Fixture(MinZeroSchema(<<"duration", "packets">>), flow_safe,
                  {"duration", "packets"}, WholeValues, 1)}
    \* a dataset that lacks schema columns
    \cup {Fixture(MinZeroSchema(<<"bytes", "packets">>), flow_safe, {"packets"},
                  WholeValues, MaxRows),
          Fixture(MinZeroSchema(<<"duration", "packets", "bytes">>), flow_safe,
                  {"packets", "bytes"}, WholeValues, 1)}

\* the datasets of 1 .. rows rows over the columns cols
DataFrames(cols, values, rows) ==
    UNION {[1 .. n -> [cols -> values]] : n \in 1 .. rows}

\* ------------------------------------------------------------------ state
VARIABLES
    df,                 \* the caller's dataset: a sequence of rows
    schema,             \* FeatureSchema.columns
    profile,            \* the ConstraintProfile object (shared with the caller)
    context,            \* FlowShield.context (RepairContext)
    trained,            \* per fitted column, the df_train its statistic was computed from
    saved,              \* the text of the file that save_state wrote
    pc,                 \* where the call is
    idx,                \* repair_dataframe: position of the current row
    ri,                 \* repair_dataframe: position of the next relation rule
    row,                \* repair_dataframe: the working row
    repaired,           \* repair_dataframe: the deep copy being repaired
    actions,            \* repair_dataframe: the action log
    keep_actions,       \* FlowShield.repair: the keep_actions argument
    report,             \* FlowShield.repair: the RepairReport returned
    sample_limit,       \* FlowShield.validate: the row-count cap of the call
    validation,         \* result of FlowShield.validate
    validation_before,  \* FlowShield.repair, line 47
    validation_after,   \* FlowShield.repair, line 49
    shares,             \* repair_dataframe: `repaired` shares its cells with the caller's df
    series,             \* evaluate_relation called by itself: the row it is given
    evaluation          \* evaluate_relation called by itself: the rule and what came back

vars == << df, schema, profile, context, trained, saved, pc, idx, ri, row, repaired, actions,
           keep_actions, report, sample_limit, validation, validation_before,
           validation_after, shares, series, evaluation >>

\* no ValidationReport has been returned yet
NoResult == BuildValidationReport(<< >>, 0) @@ [raised |-> FALSE]
\* evaluate_relation has not been called by itself
NoSeries == [name |-> NoName, values |-> EmptyDict]
NoEvaluation == [called |-> FALSE]
\* no RepairReport has been returned yet
NoReport == GenerateRepairReport(<< >>, NoResult, NoResult)

Init ==
    \E fx \in Fixtures :
        /\ schema = fx.schema
        /\ profile = fx.profile
        /\ df \in DataFrames(fx.columns, fx.values, fx.rows)
        /\ context = [impute_stats |-> EmptyDict]
        /\ trained = EmptyDict
        /\ saved = NoFile
        /\ pc = "start"
        /\ idx = 0
        /\ ri = 0
        /\ row = EmptyDict
        /\ repaired = << >>
        /\ actions = << >>
        /\ keep_actions = TRUE
        /\ report = NoReport
        /\ sample_limit = None
        /\ validation = NoResult
        /\ validation_before = NoResult
        /\ validation_after = NoResult
        /\ shares = FALSE
        /\ series = NoSeries
        /\ evaluation = NoEvaluation

\* FlowShield.fit_repair_stats(df_train, schema): the statistics are fitted on
\* the dataset itself, as tests/test_repair.py does, or on another dataset
Fit ==
    /\ pc = "start"
    /\ \E df_train \in {df} \cup TrainFrames :
       \E res \in {UpdateStats(context.impute_stats, df_train, schema, 1)} :
          /\ context' = [context EXCEPT !.impute_stats = res.stats]
          /\ trained' = [name \in DOMAIN trained \cup FittedColumns(df_train, schema) |->
                            IF name \in FittedColumns(df_train, schema)
                            THEN df_train ELSE trained[name]]
          /\ pc' = IF res.raised THEN "fit_raised" ELSE "start"
    /\ UNCHANGED << keep_actions, report, sample_limit, df, schema, profile, saved, idx, ri, row, repaired, actions,
                    validation, validation_before, validation_after, series, evaluation, shares >>

\* FlowShield.save_state(path)
SaveState ==
    /\ pc = "start"
    /\ saved' = JsonDumps([impute_stats |-> context.impute_stats])
    /\ UNCHANGED << keep_actions, report, sample_limit, df, schema, profile, context, trained, pc,
                    idx, ri, row, repaired, actions, validation, validation_before,
                    validation_after, series, evaluation, shares >>

\* FlowShield.load_state(path): a new object whose statistics are those of the
\* JSON document, or none when the document has no "impute_stats"; the file is
\* the one save_state wrote or another one
LoadState ==
    /\ pc = "start"
    /\ \E content \in StateFiles \cup ({saved} \ {NoFile}) :
       \E data \in {JsonLoads(content)} :
          context' = [impute_stats |-> Get(data, "impute_stats", EmptyDict)]
    /\ trained' = EmptyDict
    /\ UNCHANGED << keep_actions, report, sample_limit, df, schema, profile, saved, pc, idx, ri, row,
                    repaired, actions, validation, validation_before, validation_after, series, evaluation, shares >>

\* a call has returned or raised and the caller goes on to another call with
\* the same FlowShield object, dataset, schema and profile object; what the
\* earlier call returned is dropped
NextCall ==
    /\ pc \in {"validated", "done", "raised", "fit_raised"}
    /\ pc' = "start"
    /\ idx' = 0
    /\ ri' = 0
    /\ row' = EmptyDict
    /\ repaired' = << >>
    /\ actions' = << >>
    /\ keep_actions' = TRUE
    /\ report' = NoReport
    /\ sample_limit' = None
    /\ validation' = NoResult
    /\ validation_before' = NoResult
    /\ validation_after' = NoResult
    /\ shares' = FALSE
    /\ UNCHANGED << df, schema, profile, context, trained, saved, series, evaluation >>

\* FlowShield.validate(df, schema, profile, sample_limit=...)
Validate ==
    /\ pc = "start"
    /\ \E limit \in {None} \cup {IntVal(n) : n \in 0 .. (Len(df) + 1)} :
          \E res \in {FlowShieldValidate(df, schema, profile, limit)} :
             /\ sample_limit' = limit
             /\ validation' = res
             /\ pc' = IF res.raised THEN "raised" ELSE "validated"
    /\ UNCHANGED << keep_actions, report, df, schema, profile, context, trained, saved, idx, ri, row,
                    repaired, actions, validation_before, validation_after, series, evaluation, shares >>

\* `repaired = df`, and likewise df.copy(deep=False): the same rows, columns
\* and values in cells that are the caller's
SameCells(frame) == [frame |-> frame, shares |-> TRUE]

\* df.copy(deep=True): a new frame with the same rows, columns and values in
\* cells of its own
DeepCopy(frame) ==
    [frame |-> [i \in DOMAIN frame |-> [name \in DOMAIN frame[i] |-> frame[i][name]]],
     shares |-> FALSE]

\* what a write to `repaired` leaves in the caller's df: the written cells
\* when the two share them
Caller(frame, written, shared) == IF shared THEN written ELSE frame

\* FlowShield.repair, line 47, and repair_dataframe up to its row loop
RepairBegin ==
    /\ pc = "start"
    /\ \E res \in {FlowShieldValidate(df, schema, profile, None)}, copy \in {DeepCopy(df)} :
          /\ validation_before' = res
          /\ pc' = IF res.raised THEN "raised" ELSE "columns"
          /\ repaired' = IF res.raised THEN repaired ELSE copy.frame
          /\ shares' = IF res.raised THEN shares ELSE copy.shares
          /\ idx' = IF res.raised THEN idx ELSE 1
          /\ row' = IF res.raised THEN row ELSE copy.frame[1]
    /\ UNCHANGED << keep_actions, report, sample_limit, df, schema, profile, context, trained, saved, ri, actions, validation,
                    validation_after, series, evaluation >>

\* repair_dataframe, lines 70-193: the column-level repairs of row idx
RepairColumns ==
    /\ pc = "columns"
    /\ \E res \in {ColumnPhase(1, idx - 1, row, schema, profile, context)} :
          IF res.raised
          THEN /\ pc' = "raised"
               /\ UNCHANGED << df, row, repaired, actions, ri >>
          ELSE /\ pc' = "rules"
               /\ row' = res.row
               /\ repaired' = [repaired EXCEPT ![idx] = res.row]
               /\ df' = Caller(df, repaired', shares)
               /\ actions' = actions \o res.actions
               /\ ri' = 1
    /\ UNCHANGED << keep_actions, report, sample_limit, schema, profile, context, trained, saved, idx, validation,
                    validation_before, validation_after, series, evaluation, shares >>

\* repaired.at[idx, act.column] = act.new_value for the actions in order
RECURSIVE WriteBack(_, _, _)
WriteBack(target, acts, i) ==
    IF i > Len(acts) THEN target
    ELSE WriteBack([target EXCEPT ![acts[i].column] = acts[i].new_value], acts, i + 1)

\* repair_dataframe, lines 194-198: repair_relation for rule ri on the row
RepairRule ==
    /\ pc = "rules"
    /\ ri <= Len(profile.relation_rules)
    /\ \E res \in {RepairRelation(row, idx - 1, profile.relation_rules[ri], profile,
                                  BoundsFromSchema(schema))} :
          IF res.raised
          THEN /\ pc' = "raised"
               /\ UNCHANGED << df, row, repaired, actions, ri, profile >>
          ELSE /\ pc' = "rules"
               /\ row' = res.row
               /\ repaired' = [repaired EXCEPT ![idx] = WriteBack(repaired[idx], res.actions, 1)]
               /\ df' = Caller(df, repaired', shares)
               /\ actions' = actions \o res.actions
               /\ profile' = [profile EXCEPT !.relation_rules[ri] = res.rule]
               /\ ri' = ri + 1
    /\ UNCHANGED << keep_actions, report, sample_limit, schema, context, trained, saved, idx, validation, validation_before,
                    validation_after, series, evaluation, shares >>

\* repair_dataframe, line 69: the row loop moves to the next row, or ends
RepairNextRow ==
    /\ pc = "rules"
    /\ ri > Len(profile.relation_rules)
    /\ IF idx < Len(repaired)
       THEN /\ idx' = idx + 1
            /\ row' = repaired[idx + 1]
            /\ pc' = "columns"
       ELSE /\ pc' = "repaired"
            /\ UNCHANGED << idx, row >>
    /\ UNCHANGED << keep_actions, report, sample_limit, df, schema, profile, context, trained, saved, ri, repaired, actions, validation,
                    validation_before, validation_after, series, evaluation, shares >>

\* repair_dataframe's return (line 199) and FlowShield.repair, lines 49-51.
\* keep_actions is an argument of the call; it is read only by the return
\* statement, so its value is drawn here.
RepairEnd ==
    /\ pc = "repaired"
    /\ \E keep \in BOOLEAN :
          \E res \in {FlowShieldValidate(repaired, schema, profile, None)} :
             /\ keep_actions' = keep
             /\ validation_after' = res
             /\ pc' = IF res.raised THEN "raised" ELSE "done"
             /\ report' = IF res.raised THEN report
                          ELSE GenerateRepairReport(IF keep THEN actions ELSE << >>,
                                                    validation_before, res)
    /\ UNCHANGED << sample_limit, df, schema, profile, context, trained, saved, idx, ri, row, repaired, actions,
                    validation, validation_before, series, evaluation, shares >>

Next ==
    \/ Fit
    \/ SaveState
    \/ LoadState
    \/ NextCall
    \/ Validate
    \/ RepairBegin
    \/ RepairColumns
    \/ RepairRule
    \/ RepairNextRow
    \/ RepairEnd

Spec == Init /\ [][Next]_vars

\* rules.evaluate_relation(row, rule) called by itself with a rule of the
\* profile: on a row taken from the dataset, whose name is its index label, or
\* on a Series built from the same cells, as pd.Series({...}), which has no name
Evaluate ==
    /\ pc = "start"
    /\ \E r \in DOMAIN df, named \in BOOLEAN, j \in DOMAIN profile.relation_rules :
       \E given \in {[name |-> IF named THEN r - 1 ELSE NoName, values |-> df[r]]} :
       \E res \in {EvaluateRelation(given.values, given.name, profile.relation_rules[j])} :
          /\ series' = given
          /\ evaluation' = [called |-> TRUE, rule |-> profile.relation_rules[j],
                            result |-> res]
    /\ pc' = "evaluated"
    /\ UNCHANGED << df, schema, profile, context, trained, saved, idx, ri, row, repaired,
                    actions, keep_actions, report, sample_limit, validation,
                    validation_before, validation_after, shares >>

EvaluateNext == Evaluate

EvaluateSpec == Init /\ [][EvaluateNext]_vars

\* ------------------------------------------------------------------ claims
\* repair_dataframe has returned
RepairFinished == pc \in {"repaired", "done"}
NumericCol(col) == col.dtype \in {"float", "int"}
Bounds == BoundsFromSchema(schema)

\* C1: after repair_dataframe completes, no value of a numeric column flagged
\* non_negative is below 0, in every row (a NaN that the reject policy leaves
\* in place is not counted against the claim).
C1_NonNegativeAfterRepair ==
    RepairFinished =>
        \A i \in DOMAIN repaired : \A c \in DOMAIN schema :
            (NumericCol(schema[c]) /\ schema[c].non_negative)
                => ~Lt(SafeFloat(repaired[i][schema[c].name]), Num(0))

\* C2: with numeric clipping enabled, after a repair pass every number in a
\* numeric column lies within the column's declared minimum and maximum.
C2_WithinBoundsAfterRepair ==
    (RepairFinished /\ profile.numeric_policy.clip) =>
        \A i \in DOMAIN repaired : \A c \in DOMAIN schema :
            LET value == repaired[i][schema[c].name]
            IN (NumericCol(schema[c]) /\ value.k = "num") =>
                  /\ schema[c].minimum.k # "none" => ~Lt(value, schema[c].minimum)
                  /\ schema[c].maximum.k # "none" => ~Gt(value, schema[c].maximum)

\* the relation rules of the profile that carry the given name
RulesNamed(name) ==
    {profile.relation_rules[i] : i \in {j \in DOMAIN profile.relation_rules :
                                          profile.relation_rules[j].name = name}}
LowerBound(column) == Get(Get(Bounds, column, EmptyDict), "min", NegInf)
UpperBound(column) == Get(Get(Bounds, column, EmptyDict), "max", PosInf)
\* the sum of the lower (or upper) bounds of the listed columns from position i
RECURSIVE BoundSum(_, _, _)
BoundSum(columns, i, lower) ==
    IF i > Len(columns) THEN Num(0)
    ELSE Add(IF lower THEN LowerBound(columns[i]) ELSE UpperBound(columns[i]),
             BoundSum(columns, i + 1, lower))
\* some assignment of values within the declared bounds satisfies the rule
RuleSatisfiable(rule) ==
    IF rule.type = "ORDER"
    THEN Le(LowerBound(rule.params.right), UpperBound(rule.params.left))
         /\ Le(LowerBound(rule.params.left), UpperBound(rule.params.right))
    ELSE IF rule.type = "SUM_BOUNDS"
    THEN /\ Le(BoundSum(rule.params.columns, 1, TRUE), Get(rule.params, "max", PosInf))
         /\ Ge(BoundSum(rule.params.columns, 1, FALSE), Get(rule.params, "min", NegInf))
    ELSE IF rule.type = "RATIO_BOUNDS"
    THEN \A c \in {rule.params.numerator, rule.params.denominator} :
            LowerBound(c) = NegInf /\ UpperBound(c) = PosInf
    ELSE IF rule.type = "IF_THEN"
    THEN \A c \in {rule.params.if_feature, rule.params.then_feature} :
            LowerBound(c) = NegInf /\ UpperBound(c) = PosInf
    ELSE \A i, j \in DOMAIN rule.params.columns :
            i < j => Le(LowerBound(rule.params.columns[i]),
                        UpperBound(rule.params.columns[j]))
\* the rule behind a violation has a repair strategy other than none and can
\* be satisfied within the declared column bounds
Repairable(violation) ==
    IF RulesNamed(violation.rule_name) # {}
    THEN \A rule \in RulesNamed(violation.rule_name) :
             rule.repair_strategy # "none" /\ RuleSatisfiable(rule)
    ELSE /\ Le(LowerBound(violation.column), UpperBound(violation.column))
         /\ \/ violation.rule_name \in {"non_negative", "integer_check"}
            \/ violation.rule_name \in {"min_check", "max_check"}
                  /\ profile.numeric_policy.clip
ErrorCount(result) ==
    Cardinality({i \in DOMAIN result.sample_violations :
                    result.sample_violations[i].severity = "error"
                    /\ Repairable(result.sample_violations[i])})

\* C3: validate, repair, validate: the second validation never reports more
\* error-severity violations of repairable, satisfiable rules than the first.
C3_RepairNeverAddsErrors ==
    pc = "done" => ErrorCount(validation_after) <= ErrorCount(validation_before)

\* C4: repairing an ORDER rule with operator <= leaves the rule's definition
\* in the profile as it was: no step of a repair pass changes the profile.
C4_RuleNotMutated == [][profile' = profile]_vars

\* C5: validate_dataframe and repair_dataframe never raise, also when the
\* dataset lacks a column named by a relation rule or by the schema.
C5_NoAbortingError == pc # "raised"

\* validate_dataframe has been called and has ended (returned or raised)
ValidateRan == pc = "validated" \/ (pc = "raised" /\ validation.raised)
MissingColumns == {schema[c].name : c \in DOMAIN schema} \ DOMAIN df[1]
ColumnRuleNames == {"null_check", "type_check", "integer_check", "min_check",
                    "max_check", "non_negative"}
RuleColumns(rule) ==
    IF rule.type = "ORDER" THEN {rule.params.left, rule.params.right}
    ELSE IF rule.type = "RATIO_BOUNDS"
    THEN {rule.params.numerator, rule.params.denominator}
    ELSE IF rule.type = "IF_THEN"
    THEN {rule.params.if_feature, rule.params.then_feature}
    ELSE {rule.params.columns[i] : i \in DOMAIN rule.params.columns}

\* C6: on a dataset that lacks a schema column, validation returns, reports
\* exactly one violation for that column in every considered row, of kind
\* missing, and still reports what the other columns and the relation rules
\* of that row give.
C6_MissingColumnReported ==
    (ValidateRan /\ MissingColumns # {}) =>
        /\ ~validation.raised
        /\ \A r \in 0 .. (validation.total_rows - 1) :
              /\ \A name \in MissingColumns :
                    LET Test(v) == v.row_index = r /\ v.column = name
                        found == SelectSeq(validation.sample_violations, Test)
                    IN Len(found) = 1 /\ found[1].violation_type = "missing"
              /\ \A c \in DOMAIN schema :
                    schema[c].name \in DOMAIN df[r + 1] =>
                        LET Test(v) == /\ v.row_index = r
                                       /\ v.column = schema[c].name
                                       /\ v.rule_name \in ColumnRuleNames
                        IN SelectSeq(validation.sample_violations, Test)
                             = ValidateValue(r, schema[c].name,
                                             df[r + 1][schema[c].name],
                                             schema[c], profile).violations
              /\ \A j \in DOMAIN profile.relation_rules :
                    LET rule == profile.relation_rules[j]
                    IN RuleColumns(rule) \subseteq DOMAIN df[r + 1] =>
                          ((\E i \in DOMAIN validation.sample_violations :
                               /\ validation.sample_violations[i].row_index = r
                               /\ validation.sample_violations[i].rule_name = rule.name)
                           <=> ~EvaluateRelation(df[r + 1], r, rule).ok)

\* the repair loop has just applied relation rule ri - 1 to the working row
RuleApplied == pc = "rules" /\ ri > 1
LastRule == profile.relation_rules[ri - 1]
\* the last applied rule logged at least one action for the working row
LastRuleActed ==
    \E i \in DOMAIN actions :
        actions[i].rule_name = LastRule.name /\ actions[i].row_index = idx - 1

\* C7: NONDECREASING_GROUP repair is idempotent: repair_relation applied again
\* to a row it has just repaired returns no action and the same row.
C7_GroupRepairIdempotent ==
    (RuleApplied /\ LastRule.type = "NONDECREASING_GROUP") =>
        \A again \in {RepairRelation(row, idx - 1, LastRule, profile, Bounds)} :
            ~again.raised /\ again.actions = << >> /\ again.row = row

\* a group repair changed the row, and a second application changes nothing
C7_Witness ==
    /\ RuleApplied /\ LastRule.type = "NONDECREASING_GROUP"
    /\ LastRuleActed
    /\ row # df[idx]
    /\ RepairRelation(row, idx - 1, LastRule, profile, Bounds).actions = << >>

\* the repair loop is about to apply relation rule ri to the working row
RulePending == pc = "rules" /\ ri <= Len(profile.relation_rules)
NextRule == profile.relation_rules[ri]
\* the actions a step appended to the log
NewActions == SubSeq(actions', Len(actions) + 1, Len(actions'))
\* largest of the numbers among the first i values of the listed columns
RunningMaximum(columns, i) ==
    LET seen == {SafeFloat(row[columns[j]]) : j \in 1 .. i} \ {NaN}
    IN CHOOSE m \in seen : \A other \in seen : Ge(m, other)

\* C8: repairing a violated NONDECREASING_GROUP rule sets every listed value
\* to the maximum of the values up to and including it, in declared order,
\* and logs one action for each column whose value changed and for no other.
C8_GroupRepairPrefixMax ==
    [][(/\ RulePending /\ NextRule.type = "NONDECREASING_GROUP"
        /\ NextRule.repair_strategy # "none"
        /\ pc' = "rules"
        /\ ~EvaluateRelation(row, idx - 1, NextRule).ok)
       => LET columns == NextRule.params.columns
              changed == {i \in DOMAIN columns : row'[columns[i]] # row[columns[i]]}
          IN /\ \A i \in DOMAIN columns :
                    row'[columns[i]] =
                        IF IsNaN(SafeFloat(row[columns[i]])) THEN row[columns[i]]
                        ELSE RunningMaximum(columns, i)
             /\ {NewActions[k].column : k \in DOMAIN NewActions}
                    = {columns[i] : i \in changed}
             /\ Len(NewActions) = Cardinality(changed)
      ]_vars

\* C9: in safe mode the repair of an ORDER rule with operator >= leaves the
\* right column as it was, in the working row and in the repaired frame, and
\* every action it logs is on the left column.
C9_SafeOrderKeepsRight ==
    [][(/\ RulePending /\ NextRule.type = "ORDER"
        /\ NextRule.params.operator = ">="
        /\ profile.repair_mode = "safe"
        /\ pc' = "rules")
       => /\ row'[NextRule.params.right] = row[NextRule.params.right]
          /\ repaired'[idx][NextRule.params.right]
                = repaired[idx][NextRule.params.right]
          /\ \A k \in DOMAIN NewActions :
                NewActions[k].column = NextRule.params.left
      ]_vars

\* a safe repair of bytes >= packets has raised bytes to packets
C9_Witness ==
    /\ RuleApplied /\ LastRule.type = "ORDER" /\ profile.repair_mode = "safe"
    /\ LastRule.params = [left |-> "bytes", right |-> "packets", operator |-> ">="]
    /\ \E i \in DOMAIN actions :
          /\ actions[i].rule_name = LastRule.name
          /\ actions[i].column = "bytes"
          /\ Lt(actions[i].old_value, actions[i].new_value)
          /\ actions[i].new_value = row["bytes"]
    /\ row["bytes"] = row["packets"]

\* the comparison left op right of an ORDER rule on a row, as numbers
ComparisonHolds(r, rule) ==
    LET lv == SafeFloat(r[rule.params.left])
        rv == SafeFloat(r[rule.params.right])
    IN IF rule.params.operator = ">="
       THEN (Gt(lv, rv) \/ Eq(lv, rv))
       ELSE (Lt(lv, rv) \/ Eq(lv, rv))

\* what the evaluation of an ORDER rule on a row is to return: satisfied and
\* no violation when left op right holds, and otherwise not-satisfied with a
\* violation whose observed value maps the left and right column names to
\* their values
OrderOutcome(given, rule, ev) ==
    /\ ~ev.raised
    /\ IF ComparisonHolds(given.values, rule)
       THEN ev.ok /\ ev.violation = None
       ELSE /\ ~ev.ok /\ ev.violation # None
            /\ DOMAIN ev.violation.observed_value
                  = {rule.params.left, rule.params.right}
            /\ \A c \in {rule.params.left, rule.params.right} :
                  ev.violation.observed_value[c] = SafeFloat(given.values[c])
\* evaluate_relation was called by itself with an ORDER rule on a row that
\* holds both of its columns
OrderEvaluated ==
    /\ pc = "evaluated"
    /\ evaluation.rule.type = "ORDER"
    /\ RuleColumns(evaluation.rule) \subseteq DOMAIN series.values

\* C10: evaluating an ORDER rule on a row gives satisfied and no violation
\* when left op right holds, and otherwise not-satisfied with one violation
\* whose observed value maps the left and right column names to their values.
C10_OrderEvaluation ==
    OrderEvaluated => OrderOutcome(series, evaluation.rule, evaluation.result)

\* the same for rows whose name is an index label, as the rows that
\* validate_dataframe and repair_dataframe iterate over
C10_NamedRowEvaluation ==
    (OrderEvaluated /\ series.name # NoName)
        => OrderOutcome(series, evaluation.rule, evaluation.result)

\* a row without a name on which the comparison fails ended in an exception
C10_NamelessRowRaises ==
    /\ OrderEvaluated /\ series.name = NoName
    /\ series.values = [bytes |-> Whole(1), packets |-> Whole(2)]
    /\ evaluation.rule.params = [left |-> "bytes", right |-> "packets", operator |-> ">="]
    /\ evaluation.result.raised

\* the column phase of row idx has just ended and no relation rule has run
ColumnsRepaired == pc = "rules" /\ ri = 1
\* the actions logged for a cell (row label r, column name)
CellActions(r, name) ==
    LET Test(a) == a.row_index = r /\ a.column = name
    IN SelectSeq(actions, Test)

\* C11: in a numeric column with minimum 0 and non_negative set, the column
\* phase turns a negative value into a value >= 0 and logs exactly one action
\* for the cell, with reason non_negative (no min_clip action follows).
C11_NegativeClippedOnce ==
    ColumnsRepaired =>
        \A c \in DOMAIN schema :
            (/\ NumericCol(schema[c]) /\ schema[c].non_negative
             /\ schema[c].minimum = Whole(0)
             /\ Lt(CoerceNumeric(df[idx][schema[c].name]), Num(0)))
            => /\ Ge(row[schema[c].name], Num(0))
               /\ Ge(repaired[idx][schema[c].name], Num(0))
               /\ Len(CellActions(idx - 1, schema[c].name)) = 1
               /\ CellActions(idx - 1, schema[c].name)[1].reason = "non_negative"

\* a negative cell of such a column was clipped to 0 under a clipping profile
C11_Witness ==
    /\ ColumnsRepaired
    /\ profile.numeric_policy.clip
    /\ \E c \in DOMAIN schema :
          /\ schema[c].non_negative /\ schema[c].minimum = Whole(0)
          /\ Lt(CoerceNumeric(df[idx][schema[c].name]), Num(0))
          /\ row[schema[c].name] = Num(0)
          /\ \E i \in DOMAIN actions : actions[i].reason = "non_negative"

\* the rows of the training data that hold a number in the column
TrainingNumbers(frame, name) ==
    {i \in DOMAIN frame : CoerceNumeric(frame[i][name]).k = "num"}
\* the median of those numbers: the midpoint of the lower and the upper
\* median, NaN when there is none
FittedMedian(frame, name) ==
    LET rows == TrainingNumbers(frame, name)
        n == Cardinality(rows)
        Cell(i) == CoerceNumeric(frame[i][name]).v
        Below(x) == Cardinality({i \in rows : Cell(i) < x})
        UpTo(x) == Cardinality({i \in rows : Cell(i) <= x})
        lower == CHOOSE x \in {Cell(i) : i \in rows} :
                    2 * Below(x) < n /\ 2 * UpTo(x) >= n
        upper == CHOOSE x \in {Cell(i) : i \in rows} :
                    2 * UpTo(x) > n /\ 2 * Below(x) <= n
    IN IF rows = {} THEN NaN ELSE Num((lower + upper) \div 2)
\* fit_repair_stats has been run for the column, or load_state read a
\* statistic for it
Fitted(name) == name \in DOMAIN context.impute_stats
\* the statistic of a fitted column: the median of the column in the training
\* data of its last fit, or what load_state read when no fit followed
ImputationValue(name) ==
    IF profile.numeric_policy.impute = "median"
    THEN (IF name \in DOMAIN trained THEN FittedMedian(trained[name], name)
          ELSE IF Fitted(name) THEN context.impute_stats[name]
          ELSE Num(0))
    ELSE Num(0)
ImputeActions(r, name) ==
    LET Test(a) == a.row_index = r /\ a.column = name /\ a.reason = "impute"
    IN SelectSeq(actions, Test)

\* C12: under null policy impute, the column phase replaces a numeric cell
\* that coerces to NaN by the imputation value of the strategy (the fitted
\* median of the column for median, 0 when never fitted, 0 for zero) and logs
\* exactly one impute action for the cell; the cell keeps that value unless a
\* later column step had to act on it.
C12_ImputeFittedMedian ==
    (ColumnsRepaired /\ profile.numeric_policy.nan_policy = "impute"
        /\ profile.numeric_policy.impute \in {"median", "zero"}) =>
        \A c \in DOMAIN schema :
            LET name == schema[c].name
            IN (NumericCol(schema[c]) /\ IsNaN(CoerceNumeric(df[idx][name]))) =>
                  /\ Len(ImputeActions(idx - 1, name)) = 1
                  /\ ImputeActions(idx - 1, name)[1].new_value = ImputationValue(name)
                  /\ ImputeActions(idx - 1, name)[1].old_value = df[idx][name]
                  /\ CellActions(idx - 1, name)[1].reason = "impute"
                  /\ Len(CellActions(idx - 1, name)) = 1
                        => row[name] = ImputationValue(name)
                           /\ repaired[idx][name] = ImputationValue(name)

\* a NaN cell was replaced by a median other than 0, fitted on training data
\* other than the dataset under repair
C12_Witness ==
    /\ ColumnsRepaired
    /\ profile.numeric_policy.nan_policy = "impute"
    /\ profile.numeric_policy.impute = "median"
    /\ "packets" \in DOMAIN trained
    /\ trained["packets"] # df
    /\ IsNaN(df[idx]["packets"])
    /\ FittedMedian(trained["packets"], "packets") = Whole(1)
    /\ row["packets"] = Whole(1)
    /\ Len(ImputeActions(idx - 1, "packets")) = 1

\* C13: after a repair pass, a cell of the repaired dataset that differs from
\* the input has at least one action, the final value of a cell with actions
\* is the new_value of the last action logged for it, and a cell with no
\* action is unchanged.
C13_EveryMutationLogged ==
    RepairFinished =>
        \A i \in DOMAIN repaired : \A name \in DOMAIN df[i] :
            LET logged == CellActions(i - 1, name)
            IN IF logged = << >>
               THEN repaired[i][name] = df[i][name]
               ELSE repaired[i][name] = logged[Len(logged)].new_value

\* an entry (violation or action) comes from a relation rule of the profile
IsRuleEntry(e) == RulesNamed(e.rule_name) # {}
\* the place of an entry in the scan: row, then columns before rules, then
\* the position of the column in the schema or of the rule in the profile
ScanKey(e) ==
    LET position ==
          IF IsRuleEntry(e)
          THEN CHOOSE j \in DOMAIN profile.relation_rules :
                   profile.relation_rules[j].name = e.rule_name
          ELSE CHOOSE c \in DOMAIN schema : schema[c].name = e.column
    IN << e.row_index, IF IsRuleEntry(e) THEN 1 ELSE 0, position >>
KeyLeq(a, b) ==
    \/ a[1] < b[1]
    \/ a[1] = b[1] /\ a[2] < b[2]
    \/ a[1] = b[1] /\ a[2] = b[2] /\ a[3] <= b[3]
InScanOrder(entries) ==
    \A i \in 1 .. (Len(entries) - 1) :
        KeyLeq(ScanKey(entries[i]), ScanKey(entries[i + 1]))

\* C14: violations and repair actions are in scan order: by row; within a
\* row the column entries, in schema order, come before the relation-rule
\* entries, which are in profile order.
C14_ScanOrder ==
    /\ InScanOrder(validation.sample_violations)
    /\ InScanOrder(validation_before.sample_violations)
    /\ InScanOrder(validation_after.sample_violations)
    /\ InScanOrder(actions)

\* a pass over two rows logged a column action and a rule action for each,
\* after a validation that reported a column and a rule violation for each
C14_Witness ==
    /\ RepairFinished /\ Len(df) = 2
    /\ \A r \in {0, 1} :
          /\ \E i, j \in DOMAIN actions :
                /\ i < j /\ actions[i].row_index = r /\ actions[j].row_index = r
                /\ ~IsRuleEntry(actions[i]) /\ IsRuleEntry(actions[j])
          /\ \E i, j \in DOMAIN validation_before.sample_violations :
                /\ i < j
                /\ validation_before.sample_violations[i].row_index = r
                /\ validation_before.sample_violations[j].row_index = r
                /\ ~IsRuleEntry(validation_before.sample_violations[i])
                /\ IsRuleEntry(validation_before.sample_violations[j])

Min(a, b) == IF a < b THEN a ELSE b

\* C15: validation called with a row-count cap k >= 0 on a dataset of N rows
\* returns the row count min(k, N), and every violation it returns refers to
\* one of the first min(k, N) rows.
C15_CapTakesPrefix ==
    (pc = "validated" /\ sample_limit # None) =>
        /\ validation.total_rows = Min(sample_limit.v, Len(df))
        /\ \A i \in DOMAIN validation.sample_violations :
              validation.sample_violations[i].row_index < Min(sample_limit.v, Len(df))

\* C16: a repair run with keep_actions = false returns the same repaired
\* dataset, and its report's counts (total, per column, per rule) equal the
\* counts of the actions that were applied.
C16_CountsKeptWithoutActions ==
    (pc = "done" /\ ~keep_actions) =>
        /\ report.validation_after = validation_after
        /\ report.total_actions = Len(actions)
        /\ report.actions_by_column = CountBy(actions, "column")
        /\ report.actions_by_rule = CountBy(actions, "rule_name")

\* the repaired frame has the rows and the columns of the input
SameShape(a, b) ==
    Len(a) = Len(b) /\ \A i \in DOMAIN a : DOMAIN a[i] = DOMAIN b[i]

\* the violation types of a cell of a column
CellChecks == {"null", "type", "integer", "range", "category"}
\* a validation result is about a frame: it counts the rows of the frame,
\* every violation names one of them, and a violation of a cell carries the
\* value the frame holds in that cell
Describes(result, frame) ==
    /\ ~result.raised
    /\ result.total_rows = Len(frame)
    /\ \A i \in DOMAIN result.sample_violations :
          LET v == result.sample_violations[i]
          IN /\ v.row_index + 1 \in DOMAIN frame
             /\ v.violation_type \in CellChecks
                   => /\ v.column \in DOMAIN frame[v.row_index + 1]
                      /\ v.observed_value = frame[v.row_index + 1][v.column]

\* C17: no step of a repair changes the caller's dataset, although the frame
\* being repaired is written cell by cell; that frame has the input's rows and
\* columns; validation_before is the validation of the input and
\* validation_after that of the returned frame, and when the call returns each
\* carries the cell values of its own frame.
C17_InputUntouched ==
    [][/\ df' = df
       /\ pc' \in {"columns", "rules", "repaired", "done"} => SameShape(repaired', df)
       /\ (pc = "start" /\ pc' = "columns")
             => /\ validation_before' = FlowShieldValidate(df, schema, profile, None)
                /\ repaired' = df
       /\ pc \in {"columns", "rules", "repaired"}
             => validation_before' = validation_before
       /\ pc' = "done"
             => /\ validation_after' = FlowShieldValidate(repaired', schema, profile', None)
                /\ validation_after'.total_rows = Len(df)
                /\ report'.validation_before = validation_before
                /\ report'.validation_after = validation_after'
                /\ Describes(report'.validation_before, df')
                /\ Describes(report'.validation_after, repaired')
      ]_vars

\* a two-row repair wrote to cells of the frame under repair and ended with a
\* dataset that differs from the untouched input and validates differently
C17_Witness ==
    /\ pc = "done" /\ Len(df) = 2
    /\ repaired # df
    /\ actions # << >>
    /\ SameShape(repaired, df)
    /\ validation_after = FlowShieldValidate(repaired, schema, profile, None)
    /\ validation_before = FlowShieldValidate(df, schema, profile, None)
    /\ validation_before # validation_after
    /\ validation_before.sample_violations # << >>
    /\ Describes(validation_before, df) /\ Describes(validation_after, repaired)
    /\ ~Describes(validation_before, repaired)

\* C18: a relation rule with a repair strategy that holds for the working row
\* when a later rule is repaired still holds after that repair.
C18_NoReviolation ==
    [][(RulePending /\ pc' = "rules")
       => \A j \in 1 .. (ri - 1) :
             LET earlier == profile.relation_rules[j]
             IN (/\ earlier.repair_strategy # "none"
                 /\ EvaluateRelation(row, idx - 1, earlier).ok)
                => EvaluateRelation(row', idx - 1, earlier).ok
      ]_vars

\* C19: repair is two-phase per row.  The column phase logs only column-level
\* actions of that row and hands over to the first rule; each rule step, in
\* profile order, works on the row as the column repairs and the earlier rule
\* repairs left it: the working row holds, for every cell, the new value of
\* the last action logged for it, a rule that holds on that row logs nothing,
\* and the first action a rule logs for a column records that value as old.
C19_TwoPhasePerRow ==
    [][/\ (pc = "columns" /\ pc' = "rules")
             => /\ ri' = 1
                /\ \A k \in DOMAIN NewActions :
                      ~IsRuleEntry(NewActions[k]) /\ NewActions[k].row_index = idx - 1
       /\ (RulePending /\ pc' = "rules")
             => /\ ri' = ri + 1
                /\ \A name \in DOMAIN row :
                      /\ row[name] = repaired[idx][name]
                      /\ CellActions(idx - 1, name) # << >>
                            => row[name] = CellActions(idx - 1, name)
                                             [Len(CellActions(idx - 1, name))].new_value
                /\ EvaluateRelation(row, idx - 1, NextRule).ok
                      => NewActions = << >> /\ row' = row
                /\ \A k \in DOMAIN NewActions :
                      /\ NewActions[k].rule_name = NextRule.name
                      /\ NewActions[k].row_index = idx - 1
                      /\ (\A h \in 1 .. (k - 1) :
                             NewActions[h].column # NewActions[k].column)
                            => NewActions[k].old_value = row[NewActions[k].column]
      ]_vars

\* a rule that the input row satisfies was repaired because a column repair
\* had changed the row first
C19_Witness ==
    /\ RuleApplied /\ ri = 2 /\ LastRule.type = "ORDER"
    /\ EvaluateRelation(df[idx], idx - 1, LastRule).ok
    /\ \E i, j \in DOMAIN actions :
          /\ i < j
          /\ ~IsRuleEntry(actions[i]) /\ actions[i].row_index = idx - 1
          /\ actions[j].rule_name = LastRule.name /\ actions[j].row_index = idx - 1

\* the columns of a group whose value is below the running maximum of the
\* values before it by more than the tolerance
GroupOffenders(r, columns) ==
    {i \in DOMAIN columns :
        \E h \in 1 .. (i - 1) :
            LtMinusTol(SafeFloat(r[columns[i]]), SafeFloat(r[columns[h]]))}

\* C20: evaluating a NONDECREASING_GROUP rule on a row reports a violation
\* exactly when some listed value is less than the running maximum of the
\* values before it minus the tolerance; there is one violation per row and
\* rule and it names the first such column of the list.
C20_GroupEvaluation ==
    pc = "validated" =>
        \A r \in 1 .. validation.total_rows :
            \A j \in DOMAIN profile.relation_rules :
                LET rule == profile.relation_rules[j]
                    Test(v) == v.row_index = r - 1 /\ v.rule_name = rule.name
                    found == SelectSeq(validation.sample_violations, Test)
                    offenders == GroupOffenders(df[r], rule.params.columns)
                IN (rule.type = "NONDECREASING_GROUP"
                        /\ RuleColumns(rule) \subseteq DOMAIN df[r]) =>
                      IF offenders = {}
                      THEN found = << >>
                      ELSE /\ Len(found) = 1
                           /\ \E first \in offenders :
                                 /\ \A i \in offenders : first <= i
                                 /\ found[1].column = rule.params.columns[first]

\* x limited to the declared bounds of a column (a bound that is not declared
\* does not limit)
Clamped(x, column) ==
    LET low == IF "min" \in DOMAIN Bounds[column] /\ Lt(x, Bounds[column]["min"])
               THEN Bounds[column]["min"] ELSE x
    IN IF "max" \in DOMAIN Bounds[column] /\ Gt(low, Bounds[column]["max"])
       THEN Bounds[column]["max"] ELSE low
\* the larger of two numbers as mathematics has it
Larger(x, y) == IF Lt(x, y) THEN y ELSE x
\* the repair loop is about to apply a violated ORDER rule with operator >=
\* that has a repair strategy, and the step returns
OrderRepairStep(mode) ==
    /\ RulePending /\ NextRule.type = "ORDER"
    /\ NextRule.params.operator = ">="
    /\ NextRule.repair_strategy # "none"
    /\ profile.repair_mode = mode
    /\ ~EvaluateRelation(row, idx - 1, NextRule).ok
    /\ pc' = "rules"

\* C21: in safe mode the repair of a violated ORDER rule with operator >= sets
\* left to max(left, right) clamped to left's declared bounds and never lowers
\* left; the rule holds after the repair whenever right does not exceed left's
\* declared maximum.
C21_SafeOrderRaisesLeft ==
    [][OrderRepairStep("safe")
       => LET left == NextRule.params.left
              right == NextRule.params.right
              lv == SafeFloat(row[left])
              rv == SafeFloat(row[right])
          IN /\ row'[left] = Clamped(Larger(lv, rv), left)
             /\ ~Lt(row'[left], lv)
             /\ (~("max" \in DOMAIN Bounds[left] /\ Gt(rv, Bounds[left]["max"]))
                    => EvaluateRelation(row', idx - 1, NextRule).ok)
      ]_vars

\* x is a number within the declared bounds of a column
WithinBounds(x, column) ==
    /\ IsFinite(x)
    /\ ~Lt(x, LowerBound(column))
    /\ ~Gt(x, UpperBound(column))

\* C22: in aggressive mode the repair of a violated ORDER rule with operator
\* >= moves left and right to their midpoint, each clipped to its own column's
\* declared bounds: from values within their bounds, the new left lies within
\* left's [min, max] and the new right within right's [min, max].
C22_AggressiveOrderWithinBounds ==
    [][(/\ OrderRepairStep("aggressive")
        /\ WithinBounds(SafeFloat(row[NextRule.params.left]), NextRule.params.left)
        /\ WithinBounds(SafeFloat(row[NextRule.params.right]), NextRule.params.right))
       => LET left == NextRule.params.left
              right == NextRule.params.right
              midpoint == Half(Add(SafeFloat(row[left]), SafeFloat(row[right])))
          IN /\ row'[left] = Clamped(midpoint, left)
             /\ row'[right] = Clamped(midpoint, right)
             /\ WithinBounds(row'[left], left)
             /\ WithinBounds(row'[right], right)
      ]_vars

\* the repair loop is about to apply a violated SUM_BOUNDS rule that has a
\* repair strategy, and the step returns
SumRepairStep ==
    /\ RulePending /\ NextRule.type = "SUM_BOUNDS"
    /\ NextRule.repair_strategy # "none"
    /\ ~EvaluateRelation(row, idx - 1, NextRule).ok
    /\ pc' = "rules"
\* the sum of the listed columns of a row, NaN counted as 0
RowSum(r, columns) == NanSum(r, columns, 1)
SumMinimum == Get(NextRule.params, "min", NegInf)
SumMaximum == Get(NextRule.params, "max", PosInf)
\* the sum of the working row is below the rule's minimum
SumBelow == Lt(RowSum(row, NextRule.params.columns), SumMinimum)
\* the equal share of the gap between the sum and the violated bound
SumShare ==
    LET gap == IF SumBelow THEN Sub(SumMinimum, RowSum(row, NextRule.params.columns))
               ELSE Sub(RowSum(row, NextRule.params.columns), SumMaximum)
    IN DivideBy(gap, Len(NextRule.params.columns))
\* the smaller and the larger of a number and a bound
Capped(x, bound) == IF Lt(bound, x) THEN bound ELSE x
Floored(x, bound) == IF Gt(bound, x) THEN bound ELSE x

\* C23: SUM_BOUNDS repair changes each listed column by an equal share of the
\* gap (gap / number of listed columns): below the rule minimum each column
\* becomes min(old + share, column maximum), above the rule maximum each
\* becomes max(old - share, column minimum); when no cap binds the repaired
\* sum equals the violated bound and the rule holds.
C23_SumRepairEqualShares ==
    [][SumRepairStep
       => LET columns == NextRule.params.columns
              new(c) == IF SumBelow
                        THEN Capped(Add(SafeFloat(row[c]), SumShare), UpperBound(c))
                        ELSE Floored(Sub(SafeFloat(row[c]), SumShare), LowerBound(c))
              free(c) == IF SumBelow
                         THEN ~Gt(Add(SafeFloat(row[c]), SumShare), UpperBound(c))
                         ELSE ~Lt(Sub(SafeFloat(row[c]), SumShare), LowerBound(c))
          IN /\ \A i \in DOMAIN columns : row'[columns[i]] = new(columns[i])
             /\ (\A i \in DOMAIN columns : free(columns[i]))
                   => /\ RowSum(row', columns) = IF SumBelow THEN SumMinimum ELSE SumMaximum
                      /\ EvaluateRelation(row', idx - 1, NextRule).ok
      ]_vars

\* a sum repair lowers a row whose listed columns are all within their bounds
SumLoweredWithinBounds ==
    /\ SumRepairStep /\ ~SumBelow
    /\ \A i \in DOMAIN NextRule.params.columns :
          WithinBounds(SafeFloat(row[NextRule.params.columns[i]]),
                       NextRule.params.columns[i])

\* C24 as stated: when SUM_BOUNDS repair lowers a sum toward the rule's
\* maximum only the opposite-direction bound (the column's maximum) is
\* enforced per column, so a column that starts within its bounds takes its
\* full share and can end below its own declared minimum.
C24_SumLoweringUnfloored ==
    [][SumLoweredWithinBounds
       => \A i \in DOMAIN NextRule.params.columns :
             LET c == NextRule.params.columns[i]
             IN row'[c] = Capped(Sub(SafeFloat(row[c]), SumShare), UpperBound(c))
      ]_vars

\* C24, amended: when SUM_BOUNDS repair lowers a sum toward the rule's
\* maximum, every listed column is floored at its own declared minimum: from
\* a row whose listed columns are all within their bounds no listed column is
\* below its own minimum after the repair (and is still within its bounds).
C24_SumLoweringFloored ==
    [][SumLoweredWithinBounds
       => \A i \in DOMAIN NextRule.params.columns :
             LET c == NextRule.params.columns[i]
             IN /\ row'[c] = Floored(Sub(SafeFloat(row[c]), SumShare), LowerBound(c))
                /\ ~Lt(row'[c], LowerBound(c))
                /\ WithinBounds(row'[c], c)
      ]_vars

\* a sum repair has lowered a row that was within its bounds: one column took
\* its share, another was held at its declared minimum, and the sum is still
\* above the rule's maximum
C24_Witness ==
    /\ RuleApplied /\ LastRule.type = "SUM_BOUNDS"
    /\ \A k \in DOMAIN actions :
          actions[k].rule_name = LastRule.name
             => WithinBounds(SafeFloat(actions[k].old_value), actions[k].column)
    /\ \E i, j \in DOMAIN actions :
          /\ actions[i].rule_name = LastRule.name
          /\ actions[j].rule_name = LastRule.name
          /\ Lt(actions[i].delta, Num(0))
          /\ actions[j].new_value = LowerBound(actions[j].column)
          /\ actions[j].delta = Num(0)
    /\ Gt(RowSum(row, LastRule.params.columns), Get(LastRule.params, "max", PosInf))

\* the repair loop is about to apply a violated RATIO_BOUNDS rule that has a
\* repair strategy, and the step returns
RatioRepairStep ==
    /\ RulePending /\ NextRule.type = "RATIO_BOUNDS"
    /\ NextRule.repair_strategy # "none"
    /\ ~EvaluateRelation(row, idx - 1, NextRule).ok
    /\ pc' = "rules"
\* denominator + eps of a RATIO_BOUNDS rule on a row
RatioDivisor(r, rule) == Add(SafeFloat(r[rule.params.denominator]), rule.params.eps)
\* the bound of a RATIO_BOUNDS rule that the ratio of a row violates
ViolatedRatioBound(r, rule) ==
    IF "min" \in DOMAIN rule.params
       /\ QuotientLt(SafeFloat(r[rule.params.numerator]), RatioDivisor(r, rule),
                     rule.params["min"])
    THEN rule.params["min"] ELSE rule.params["max"]

\* C25: RATIO_BOUNDS repair modifies only the numerator cell, setting it to
\* bound * (denominator + eps) for the violated bound; the denominator and
\* every other cell of the row are unchanged and exactly one action, on the
\* numerator, is logged.
C25_RatioRepairsNumeratorOnly ==
    [][RatioRepairStep
       => LET num == NextRule.params.numerator
          IN /\ row'[num] = Mul(ViolatedRatioBound(row, NextRule),
                                RatioDivisor(row, NextRule))
             /\ \A c \in DOMAIN row \ {num} :
                   row'[c] = row[c] /\ repaired'[idx][c] = repaired[idx][c]
             /\ repaired'[idx][num] = row'[num]
             /\ Len(NewActions) = 1
             /\ NewActions[1].column = num
             /\ NewActions[1].new_value = row'[num]
      ]_vars

\* a ratio repair has moved bytes to bound * (packets + eps) and left packets
\* and duration as the dataset has them
C25_Witness ==
    /\ RuleApplied /\ LastRule.type = "RATIO_BOUNDS"
    /\ \E i \in DOMAIN actions :
          /\ actions[i].rule_name = LastRule.name
          /\ actions[i].column = "bytes"
          /\ Ne(actions[i].old_value, actions[i].new_value)
          /\ row["bytes"] = actions[i].new_value
    /\ row["bytes"] # df[idx]["bytes"]
    /\ row["packets"] = df[idx]["packets"]
    /\ row["duration"] = df[idx]["duration"]
    /\ EvaluateRelation(row, idx - 1, LastRule).ok

C27_RuleActionsCarryMessage ==
    [][(/\ RulePending /\ pc' = "rules"
        /\ NextRule.type \in {"ORDER", "SUM_BOUNDS", "RATIO_BOUNDS", "NONDECREASING_GROUP"})
       => \A k \in DOMAIN NewActions :
             /\ NewActions[k].rule_name = NextRule.name
             /\ NewActions[k].strategy = NextRule.repair_strategy
             /\ EvaluateRelation(row, idx - 1, NextRule).violation # None
                   => NewActions[k].reason = NextRule.message
      ]_vars

\* FlowShield.validate has returned the validation of row 1, whose cell in a
\* categorical column that declares categories holds a value that is neither
\* null nor a string
NonStringCategory(col) ==
    /\ pc = "validated" /\ sample_limit # IntVal(0)
    /\ col.dtype = "categorical" /\ col.categories # << >>
    /\ col.name \in DOMAIN df[1]
    /\ df[1][col.name].k \notin {"none", "nan"} /\ ~IsStr(df[1][col.name])

\* C28: for a categorical column with a declared category set, a non-string
\* value is reported as a category violation whose expectation is the one for
\* non-strings ("string"), not the list of the declared categories.
C28_NonStringCategoryExpectation ==
    \A c \in DOMAIN schema :
        NonStringCategory(schema[c])
        => /\ \E i \in DOMAIN validation.sample_violations :
                 LET v == validation.sample_violations[i]
                 IN /\ v.column = schema[c].name /\ v.row_index = 0
                    /\ v.violation_type = "category"
                    /\ v.expected = <<"string">>
           /\ \A i \in DOMAIN validation.sample_violations :
                 LET v == validation.sample_violations[i]
                 IN (v.column = schema[c].name /\ v.violation_type = "category")
                    => v.expected # schema[c].categories

\* the aggressive repair of a violated ORDER rule whose two values are numbers
NumericOrderRepairStep ==
    /\ OrderRepairStep("aggressive")
    /\ SafeFloat(row[NextRule.params.left]).k # "nan"
    /\ SafeFloat(row[NextRule.params.right]).k # "nan"

\* C29: in aggressive mode, after the repair of a violated ORDER rule with
\* operator >= on numeric (non-NaN) values the rule holds: the new left is at
\* least the midpoint of the two values and the new right is at most the
\* midpoint, whatever the bounds of the two columns are.
C29_AggressiveOrderHolds ==
    [][NumericOrderRepairStep
       => LET left == NextRule.params.left
              right == NextRule.params.right
              midpoint == Half(Add(SafeFloat(row[left]), SafeFloat(row[right])))
          IN /\ Ge(row'[left], midpoint)
             /\ Le(row'[right], midpoint)
             /\ Ge(row'[left], row'[right])
             /\ EvaluateRelation(row', idx - 1, NextRule).ok
      ]_vars

====
